---- MODULE Spec2Model ----
(***************************************************************************)
(* Health and Fitness Club Management System: the business-rule functions  *)
(* of src/app (member, trainer and admin operations) over the relational   *)
(* store declared in src/models.                                           *)
(*                                                                         *)
(* Dates are day numbers, times of day are minutes since midnight, row ids *)
(* are the positions of the rows in their tables (autoincrement keys, no   *)
(* operation deletes a row).  Strings that the code trims or case-folds    *)
(* are sequences of one-character strings.                                 *)
(***************************************************************************)
EXTENDS Integers, Sequences, FiniteSets, TLC

VARIABLES
    today,          \* date.today()
    members,        \* table Member
    sessionMembers, \* the Member objects of the db session: the rows of table
                    \* Member with the attribute values assigned since the last
                    \* commit or rollback
    sessions,       \* table PersonalTrainingSession
    healthMetrics,  \* table HealthMetric
    fitnessGoals,   \* table FitnessGoal
    issues,         \* table MaintenanceIssue
    invoices,       \* table Invoice
    last,           \* the last call and what it returned or raised
    inflight        \* for each concurrent caller, the call it is in between its
                    \* last query and its commit

vars ==
    <<today, members, sessionMembers, sessions, healthMetrics, fitnessGoals, issues,
      invoices, last, inflight>>

\* Python's None, for optional arguments and nullable columns: of a number or a
\* date, of an enumerated string, and of a text.
None == 0 - 999
NoneStr == "<None>"
NoneText == << "<None>" >>

----------------------------------------------------------------------------
(* Python strings: a text is a sequence of characters. *)

UpperCase == << "A", "B", "F", "M", "O", "X" >>
LowerCase == << "a", "b", "f", "m", "o", "x" >>

LowerChar(c) ==
    IF \E i \in DOMAIN UpperCase : UpperCase[i] = c
    THEN LowerCase[CHOOSE i \in DOMAIN UpperCase : UpperCase[i] = c]
    ELSE c

UpperChar(c) ==
    IF \E i \in DOMAIN LowerCase : LowerCase[i] = c
    THEN UpperCase[CHOOSE i \in DOMAIN LowerCase : LowerCase[i] = c]
    ELSE c

\* str.lower() and str.upper()
Lower(s) == [i \in DOMAIN s |-> LowerChar(s[i])]
Upper(s) == [i \in DOMAIN s |-> UpperChar(s[i])]

\* str.strip()
RECURSIVE LStrip(_)
LStrip(s) == IF s # << >> /\ Head(s) = " " THEN LStrip(Tail(s)) ELSE s

RECURSIVE RStrip(_)
RStrip(s) ==
    IF s # << >> /\ s[Len(s)] = " " THEN RStrip(SubSeq(s, 1, Len(s) - 1)) ELSE s

Strip(s) == RStrip(LStrip(s))

\* c in s
Contains(s, c) == \E i \in DOMAIN s : s[i] = c

\* s.split('@')[-1]
AfterLastAt(s) ==
    IF Contains(s, "@")
    THEN LET k == CHOOSE i \in DOMAIN s :
                      s[i] = "@" /\ \A j \in DOMAIN s : s[j] = "@" => j <= i
         IN SubSeq(s, k + 1, Len(s))
    ELSE s

\* A text of n characters.
TextOfLen(n) == [i \in 1 .. n |-> "a"]

\* Python truthiness of an optional enumerated string.
TruthyStr(s) == s # NoneStr /\ s # ""

\* Python truthiness of an optional text: None and the empty string are falsy.
TruthyText(s) == s # NoneText /\ s # << >>

----------------------------------------------------------------------------
(* Bounds of the model. *)

MaxDay == 1
MaxSessions == 2
MaxMembers == 2
MaxMetrics == 2
MaxGoals == 2
MaxIssues == 1
MaxInvoices == 2

----------------------------------------------------------------------------
(* Rows the external collaborator creates (src/seed_data.py). *)

TrainerIDs == {1, 2}
RoomIDs == {1, 2, 3, 4}
AdminIDs == {1}

\* Room.RoomCapacity, a nullable Integer column without a CHECK constraint: the
\* first two seeded rooms, a room of capacity 0 and a room with no capacity.
RoomCapacity(room_id) ==
    IF room_id = 1 THEN 10
    ELSE IF room_id = 2 THEN 20
    ELSE IF room_id = 3 THEN 0
    ELSE None

SeedMember(first_name, email) ==
    [ FirstName |-> first_name, LastName |-> <<"d">>, Email |-> email,
      DateOfBirth |-> 0 - 10000, Gender |-> <<"M">>, Phone |-> NoneText,
      Address |-> NoneText, JoinDate |-> 0 - 100, MembershipStatus |-> "Active" ]

SeedMembers ==
    << SeedMember(<<"j">>, <<"j", "@", "x", ".", "c">>),
       SeedMember(<<"k">>, <<"k", "@", "x", ".", "c">>) >>

----------------------------------------------------------------------------
(* Outcomes: "ok", or the ValueError a call raises. *)

OK == "ok"
PERSONAL_TRAINING == "Personal Training"
GROUP_CLASS == "Group Class"
valid_types == {PERSONAL_TRAINING, GROUP_CLASS}

----------------------------------------------------------------------------
(* Store queries. *)

MemberExists(member_id) == member_id \in DOMAIN members
TrainerExists(trainer_id) == trainer_id \in TrainerIDs
RoomExists(room_id) == room_id \in RoomIDs
SessionExists(session_id) == session_id \in DOMAIN sessions

\* The end of a call on the db session, for table Member: db.commit() writes the
\* attribute values assigned to the session's Member objects, db.rollback() in an
\* except block discards them, and a ValueError raised before the try block
\* does neither.
\* The processes that call the functions at the same time, each with a db
\* session of its own, and the state of one that is not inside a call.
Callers == {1, 2}
Idle == [op |-> "idle"]
NoCalls == [c \in Callers |-> Idle]

EndOfCall(outcome, rolled_back) ==
    /\ members' = IF outcome = OK THEN sessionMembers ELSE members
    /\ sessionMembers' = IF outcome # OK /\ rolled_back THEN members ELSE sessionMembers

\* Python truthiness of an optional integer: None and 0 are falsy.
Truthy(x) == x # None /\ x # 0

\* An overlap test with closed bounds, which takes touching intervals for a conflict.
TimeOverlapClosed(s, start_time, end_time) ==
    s.StartTime <= end_time /\ s.EndTime >= start_time

\* The filter of the three conflict queries: StartTime < end_time, EndTime > start_time.
TimeOverlap(s, start_time, end_time) ==
    s.StartTime < end_time /\ s.EndTime > start_time

\* A scan that only asks whether the new session starts inside an existing one.
TrainerConflictRowsStartOnly(trainer_id, session_date, start_time, end_time) ==
    { i \in DOMAIN sessions :
        /\ sessions[i].TrainerID = trainer_id
        /\ sessions[i].SessionDate = session_date
        /\ sessions[i].StartTime <= start_time
        /\ sessions[i].EndTime > start_time }

TrainerConflictRows(trainer_id, session_date, start_time, end_time) ==
    { i \in DOMAIN sessions :
        /\ sessions[i].TrainerID = trainer_id
        /\ sessions[i].SessionDate = session_date
        /\ TimeOverlap(sessions[i], start_time, end_time) }

RoomConflictRows(room_id, session_date, start_time, end_time) ==
    { i \in DOMAIN sessions :
        /\ sessions[i].RoomID = room_id
        /\ sessions[i].SessionDate = session_date
        /\ TimeOverlap(sessions[i], start_time, end_time) }

\* A scan that only asks whether the new session starts inside a session of the
\* member.
MemberConflictRowsStartOnly(member_id, session_date, start_time, end_time) ==
    { i \in DOMAIN sessions :
        /\ sessions[i].MemberID = member_id
        /\ sessions[i].SessionDate = session_date
        /\ sessions[i].StartTime <= start_time
        /\ sessions[i].EndTime > start_time }

MemberConflictRows(member_id, session_date, start_time, end_time) ==
    { i \in DOMAIN sessions :
        /\ sessions[i].MemberID = member_id
        /\ sessions[i].SessionDate = session_date
        /\ TimeOverlap(sessions[i], start_time, end_time) }

----------------------------------------------------------------------------
(* register_member: a is the record of its arguments. *)

valid_membership_statuses == {"Active", "Inactive", "Suspended", "Cancelled"}
valid_genders == { <<"M">>, <<"F">>, <<"O">>, << >> }

RegisterValidation(a) ==
    IF a.first_name = NoneText \/ Strip(a.first_name) = << >>
         THEN "First name is required and cannot be empty."
    ELSE IF a.last_name = NoneText \/ Strip(a.last_name) = << >>
         THEN "Last name is required and cannot be empty."
    ELSE IF a.email = NoneText \/ Strip(a.email) = << >>
         THEN "Email is required and cannot be empty."
    ELSE IF ~Contains(a.email, "@") \/ ~Contains(AfterLastAt(a.email), ".")
         THEN "Invalid email format."
    ELSE IF Len(a.first_name) > 50 THEN "First name cannot exceed 50 characters."
    ELSE IF Len(a.last_name) > 50 THEN "Last name cannot exceed 50 characters."
    ELSE IF Len(a.email) > 100 THEN "Email cannot exceed 100 characters."
    ELSE IF a.date_of_birth # None /\ a.date_of_birth > today
         THEN "Date of birth cannot be in the future."
    ELSE IF a.date_of_birth # None /\ (today - a.date_of_birth) \div 365 > 120
         THEN "Invalid date of birth (age exceeds reasonable limit)."
    ELSE IF a.date_of_birth # None /\ (today - a.date_of_birth) \div 365 < 13
         THEN "Member must be at least 13 years old."
    ELSE IF TruthyText(a.gender) /\ Upper(a.gender) \notin valid_genders
         THEN "Gender must be 'M', 'F', 'O', or empty."
    ELSE IF a.membership_status \notin valid_membership_statuses
         THEN "Membership status must be one of: valid_statuses"
    ELSE OK

\* db.query(Member).filter(Member.Email == email).first()
EmailRows(email) == { i \in DOMAIN members : members[i].Email = email }

\* An Email column that keeps the case of the argument.
StoredEmailKeepCase(email) == Strip(email)

\* Email=email.strip().lower()
StoredEmail(email) == Lower(Strip(email))

NewMember(a) ==
    [ FirstName |-> Strip(a.first_name),
      LastName |-> Strip(a.last_name),
      Email |-> StoredEmail(a.email),
      DateOfBirth |-> a.date_of_birth,
      Gender |-> IF TruthyText(a.gender) THEN Upper(a.gender) ELSE NoneText,
      Phone |-> IF TruthyText(a.phone) THEN Strip(a.phone) ELSE NoneText,
      Address |-> IF TruthyText(a.address) THEN Strip(a.address) ELSE NoneText,
      JoinDate |-> today,
      MembershipStatus |-> a.membership_status ]

\* Column(String(100), unique=True): the INSERT raises IntegrityError.
MemberEmailUnique(row) == \A i \in DOMAIN members : members[i].Email # row.Email

\* The String(n) columns of Member that the argument checks do not bound: the
\* INSERT raises a store error for a longer value.
MemberColumnsFit(row) ==
    /\ row.Phone = NoneText \/ Len(row.Phone) <= 20
    /\ row.Address = NoneText \/ Len(row.Address) <= 200

RegisterOutcome(a) ==
    IF RegisterValidation(a) # OK THEN RegisterValidation(a)
    ELSE IF EmailRows(a.email) # {} THEN "Email already exists. Registration failed."
    ELSE IF ~MemberEmailUnique(NewMember(a))
         THEN "Email already exists. Registration failed."
    ELSE IF ~MemberColumnsFit(NewMember(a)) THEN "Registration failed: store error"
    ELSE OK

register_member(a) ==
    LET outcome == RegisterOutcome(a) IN
    /\ outcome = OK => Len(members) < MaxMembers
    /\ members' = IF outcome = OK THEN Append(sessionMembers, NewMember(a)) ELSE members
    /\ sessionMembers' = IF outcome = OK THEN Append(sessionMembers, NewMember(a))
                         ELSE IF RegisterValidation(a) = OK /\ EmailRows(a.email) = {}
                              THEN members
                         ELSE sessionMembers
    /\ last' = [op |-> "register_member", outcome |-> outcome,
                id |-> IF outcome = OK THEN Len(members) + 1 ELSE None,
                queried |-> RegisterValidation(a) = OK]
    /\ UNCHANGED <<inflight, today, fitnessGoals, sessions, healthMetrics, issues, invoices>>

----------------------------------------------------------------------------
(* update_profile: a is the record of its arguments.  The fields are checked   *)
(* and assigned to the session's Member object one after the other; p is the  *)
(* object and the outcome so far.                                              *)

ProfileFirstName(p, a) ==
    IF p.outcome # OK \/ a.first_name = NoneText THEN p
    ELSE IF Strip(a.first_name) = << >>
         THEN [p EXCEPT !.outcome = "First name cannot be empty."]
    ELSE IF Len(a.first_name) > 50
         THEN [p EXCEPT !.outcome = "First name cannot exceed 50 characters."]
    ELSE [p EXCEPT !.row.FirstName = Strip(a.first_name)]

ProfileLastName(p, a) ==
    IF p.outcome # OK \/ a.last_name = NoneText THEN p
    ELSE IF Strip(a.last_name) = << >>
         THEN [p EXCEPT !.outcome = "Last name cannot be empty."]
    ELSE IF Len(a.last_name) > 50
         THEN [p EXCEPT !.outcome = "Last name cannot exceed 50 characters."]
    ELSE [p EXCEPT !.row.LastName = Strip(a.last_name)]

ProfilePhone(p, a) ==
    IF p.outcome # OK \/ a.phone = NoneText THEN p
    ELSE IF a.phone # << >> /\ Len(a.phone) > 20
         THEN [p EXCEPT !.outcome = "Phone number cannot exceed 20 characters."]
    ELSE [p EXCEPT !.row.Phone = IF a.phone # << >> THEN Strip(a.phone) ELSE NoneText]

ProfileAddress(p, a) ==
    IF p.outcome # OK \/ a.address = NoneText THEN p
    ELSE IF a.address # << >> /\ Len(a.address) > 200
         THEN [p EXCEPT !.outcome = "Address cannot exceed 200 characters."]
    ELSE [p EXCEPT !.row.Address =
                       IF a.address # << >> THEN Strip(a.address) ELSE NoneText]

ProfileDateOfBirth(p, a) ==
    IF p.outcome # OK \/ a.date_of_birth = None THEN p
    ELSE IF a.date_of_birth > today
         THEN [p EXCEPT !.outcome = "Date of birth cannot be in the future."]
    ELSE IF \/ (today - a.date_of_birth) \div 365 > 120
            \/ (today - a.date_of_birth) \div 365 < 13
         THEN [p EXCEPT !.outcome = "Invalid date of birth."]
    ELSE [p EXCEPT !.row.DateOfBirth = a.date_of_birth]

ProfileGender(p, a) ==
    IF p.outcome # OK \/ a.gender = NoneText THEN p
    ELSE IF a.gender # << >> /\ Upper(a.gender) \notin valid_genders
         THEN [p EXCEPT !.outcome = "Gender must be 'M', 'F', 'O', or empty."]
    ELSE [p EXCEPT !.row.Gender = IF a.gender # << >> THEN Upper(a.gender) ELSE NoneText]

\* The Member object row after the field blocks of the call, and their outcome.
ProfileResult(row, a) ==
    ProfileGender(
      ProfileDateOfBirth(
        ProfileAddress(
          ProfilePhone(
            ProfileLastName(
              ProfileFirstName([row |-> row, outcome |-> OK], a), a), a), a), a), a)

\* The argument checks, made before the first db.query.
UpdateProfileValidation(a) ==
    IF a.member_id <= 0 THEN "Member ID must be a positive integer."
    ELSE IF /\ a.first_name = NoneText /\ a.last_name = NoneText /\ a.phone = NoneText
            /\ a.address = NoneText /\ a.date_of_birth = None /\ a.gender = NoneText
         THEN "At least one field must be provided for update."
    ELSE OK

\* The checks made before the Member object is touched.
UpdateProfileLookups(a) ==
    IF UpdateProfileValidation(a) # OK THEN UpdateProfileValidation(a)
    ELSE IF ~MemberExists(a.member_id) THEN "Member not found."
    ELSE OK

UpdateProfileOutcome(a) ==
    IF UpdateProfileLookups(a) # OK THEN UpdateProfileLookups(a)
    ELSE ProfileResult(sessionMembers[a.member_id], a).outcome

\* The session's Member objects after the call: the assignments made before a
\* ValueError stay on the object, no db.rollback() being called.
ProfileAssigned(a) ==
    IF UpdateProfileLookups(a) # OK THEN sessionMembers
    ELSE [sessionMembers EXCEPT ![a.member_id] = ProfileResult(@, a).row]

update_profile(a) ==
    LET outcome == UpdateProfileOutcome(a) IN
    /\ members' = IF outcome = OK THEN ProfileAssigned(a) ELSE members
    /\ sessionMembers' = ProfileAssigned(a)
    /\ last' = [op |-> "update_profile", outcome |-> outcome,
                id |-> IF outcome = OK THEN a.member_id ELSE None,
                queried |-> UpdateProfileValidation(a) = OK]
    /\ UNCHANGED <<inflight, today, fitnessGoals, sessions, healthMetrics, issues, invoices>>

----------------------------------------------------------------------------
(* add_fitness_goal: a is the record of its arguments.  Target weight and     *)
(* body fat are in hundredths of their unit, the scale of Numeric(5, 2).      *)

valid_goal_statuses == {"Active", "Completed", "Cancelled", "On Hold"}

\* Argument checks that let a target weight or body fat of any value through.
GoalValidationNoTargets(a) ==
    IF a.member_id <= 0 THEN "Member ID must be a positive integer."
    ELSE IF ~TruthyText(a.goal_type) \/ Strip(a.goal_type) = << >>
         THEN "Goal type is required and cannot be empty."
    ELSE IF Len(a.goal_type) > 50 THEN "Goal type cannot exceed 50 characters."
    ELSE IF a.target_date # None /\ a.target_date < today
         THEN "Target date cannot be in the past."
    ELSE IF a.target_date # None /\ a.target_date - today > 3650
         THEN "Target date is too far in the future."
    ELSE IF a.goal_status \notin valid_goal_statuses
         THEN "Goal status must be one of: valid_statuses"
    ELSE OK

\* The argument checks, made before the first db.query.
GoalValidation(a) ==
    IF a.member_id <= 0 THEN "Member ID must be a positive integer."
    ELSE IF ~TruthyText(a.goal_type) \/ Strip(a.goal_type) = << >>
         THEN "Goal type is required and cannot be empty."
    ELSE IF Len(a.goal_type) > 50 THEN "Goal type cannot exceed 50 characters."
    ELSE IF a.target_body_weight # None /\ a.target_body_weight <= 0
         THEN "Target body weight must be positive."
    ELSE IF a.target_body_weight # None /\ a.target_body_weight > 100000
         THEN "Target body weight exceeds reasonable limit."
    ELSE IF /\ a.target_body_fat # None
            /\ (a.target_body_fat < 0 \/ a.target_body_fat > 10000)
         THEN "Target body fat percentage must be between 0 and 100."
    ELSE IF a.target_date # None /\ a.target_date < today
         THEN "Target date cannot be in the past."
    ELSE IF a.target_date # None /\ a.target_date - today > 3650
         THEN "Target date is too far in the future."
    ELSE IF a.goal_status \notin valid_goal_statuses
         THEN "Goal status must be one of: valid_statuses"
    ELSE OK

\* The member lookup, then the check that a target is given.
GoalLookups(a) ==
    IF ~MemberExists(a.member_id) THEN "Member not found."
    ELSE IF a.target_body_weight = None /\ a.target_body_fat = None
         THEN "At least one target (body weight or body fat percentage) must be specified."
    ELSE OK

NewGoal(a) ==
    [ MemberID |-> a.member_id,
      GoalType |-> Strip(a.goal_type),
      TargetBodyWeight |-> a.target_body_weight,
      TargetBodyFatPercentage |-> a.target_body_fat,
      SetDate |-> today,
      TargetDate |-> a.target_date,
      GoalStatus |-> a.goal_status,
      Notes |-> IF TruthyText(a.notes) THEN Strip(a.notes) ELSE NoneText ]

\* Numeric(5, 2) holds an absolute value below 1000: the INSERT raises a store
\* error for the target weight 1000, which the argument check lets through.
GoalColumnsFit(row) ==
    /\ row.TargetBodyWeight = None \/ row.TargetBodyWeight < 100000
    /\ row.TargetBodyFatPercentage = None \/ row.TargetBodyFatPercentage < 100000

GoalOutcome(a) ==
    IF GoalValidation(a) # OK THEN GoalValidation(a)
    ELSE IF GoalLookups(a) # OK THEN GoalLookups(a)
    ELSE IF ~GoalColumnsFit(NewGoal(a)) THEN "Failed to add fitness goal: store error"
    ELSE OK

add_fitness_goal(a) ==
    LET outcome == GoalOutcome(a) IN
    /\ outcome = OK => Len(fitnessGoals) < MaxGoals
    /\ fitnessGoals' = IF outcome = OK THEN Append(fitnessGoals, NewGoal(a))
                       ELSE fitnessGoals
    /\ last' = [op |-> "add_fitness_goal", outcome |-> outcome,
                id |-> IF outcome = OK THEN Len(fitnessGoals) + 1 ELSE None,
                queried |-> GoalValidation(a) = OK]
    /\ EndOfCall(outcome, outcome = "Failed to add fitness goal: store error")
    /\ UNCHANGED <<inflight, today, sessions, healthMetrics, issues, invoices>>

----------------------------------------------------------------------------
(* log_health_metric: a is the record of its arguments.  Height, weight and    *)
(* body fat are in hundredths of their unit, the scale of Numeric(5, 2).       *)

MetricValidation(a) ==
    IF a.member_id <= 0 THEN "Member ID must be a positive integer."
    ELSE IF a.recorded_date > today THEN "Recorded date cannot be in the future."
    ELSE IF today - a.recorded_date > 36500 THEN "Recorded date is too far in the past."
    ELSE IF /\ a.height = None /\ a.weight = None
            /\ a.body_fat_percentage = None /\ a.resting_heart_rate = None
         THEN "At least one health metric must be provided."
    ELSE IF a.height # None /\ a.height <= 0 THEN "Height must be positive."
    ELSE IF a.height # None /\ a.height > 30000 THEN "Height exceeds reasonable limit."
    ELSE IF a.weight # None /\ a.weight <= 0 THEN "Weight must be positive."
    ELSE IF a.weight # None /\ a.weight > 100000 THEN "Weight exceeds reasonable limit."
    ELSE IF /\ a.body_fat_percentage # None
            /\ (a.body_fat_percentage < 0 \/ a.body_fat_percentage > 10000)
         THEN "Body fat percentage must be between 0 and 100."
    ELSE IF a.resting_heart_rate # None /\ a.resting_heart_rate <= 0
         THEN "Resting heart rate must be positive."
    ELSE IF /\ a.resting_heart_rate # None
            /\ (a.resting_heart_rate < 30 \/ a.resting_heart_rate > 200)
         THEN "Resting heart rate must be between 30 and 200 bpm."
    ELSE OK

NewMetric(a) ==
    [ MemberID |-> a.member_id,
      RecordedDate |-> a.recorded_date,
      Height |-> a.height,
      Weight |-> a.weight,
      BodyFatPercentage |-> a.body_fat_percentage,
      RestingHeartRate |-> a.resting_heart_rate,
      Notes |-> IF TruthyText(a.notes) THEN Strip(a.notes) ELSE NoneText ]

\* Numeric(5, 2) holds an absolute value below 1000: the INSERT raises a store
\* error for the weight 1000, which the argument check lets through.
MetricColumnsFit(row) ==
    /\ row.Height = None \/ row.Height < 100000
    /\ row.Weight = None \/ row.Weight < 100000
    /\ row.BodyFatPercentage = None \/ row.BodyFatPercentage < 100000

MetricOutcome(a) ==
    IF MetricValidation(a) # OK THEN MetricValidation(a)
    ELSE IF ~MemberExists(a.member_id) THEN "Member not found."
    ELSE IF ~MetricColumnsFit(NewMetric(a)) THEN "Failed to log health metric: store error"
    ELSE OK

\* A write that keeps one row per member and date, replacing the older one.
MetricRowsOverwrite(a) ==
    IF \E i \in DOMAIN healthMetrics :
           /\ healthMetrics[i].MemberID = a.member_id
           /\ healthMetrics[i].RecordedDate = a.recorded_date
    THEN [ i \in DOMAIN healthMetrics |->
             IF /\ healthMetrics[i].MemberID = a.member_id
                /\ healthMetrics[i].RecordedDate = a.recorded_date
             THEN NewMetric(a) ELSE healthMetrics[i] ]
    ELSE Append(healthMetrics, NewMetric(a))

\* db.add(new_metric); db.commit()
MetricRows(a) == Append(healthMetrics, NewMetric(a))

log_health_metric(a) ==
    LET outcome == MetricOutcome(a) IN
    /\ outcome = OK => Len(healthMetrics) < MaxMetrics
    /\ healthMetrics' = IF outcome = OK THEN MetricRows(a) ELSE healthMetrics
    /\ last' = [op |-> "log_health_metric", outcome |-> outcome,
                id |-> IF outcome = OK THEN Len(healthMetrics) + 1 ELSE None,
                queried |-> MetricValidation(a) = OK]
    /\ EndOfCall(outcome, outcome = "Failed to log health metric: store error")
    /\ UNCHANGED <<inflight, today, fitnessGoals, sessions, issues, invoices>>

----------------------------------------------------------------------------
(* schedule_pt_session: a is the record of its arguments. *)

\* Argument checks that accept every session date.
ScheduleValidationAnyDate(a) ==
    IF a.member_id <= 0 THEN "Member ID must be a positive integer."
    ELSE IF a.trainer_id <= 0 THEN "Trainer ID must be a positive integer."
    ELSE IF a.room_id # None /\ a.room_id <= 0 THEN "Room ID must be a positive integer."
    ELSE IF a.start_time >= a.end_time THEN "Start time must be before end time."
    ELSE IF a.end_time - a.start_time < 15
         THEN "Session duration must be at least 15 minutes."
    ELSE IF a.end_time - a.start_time > 480 THEN "Session duration cannot exceed 8 hours."
    ELSE IF a.session_type \notin valid_types
         THEN "Session type must be one of: valid_types"
    ELSE IF a.session_type = GROUP_CLASS
            /\ (a.max_capacity = None \/ a.max_capacity <= 0)
                 THEN "Group classes must have a positive max capacity."
    ELSE IF a.session_type = GROUP_CLASS /\ a.max_capacity > 100
         THEN "Max capacity cannot exceed 100."
    ELSE OK

ScheduleValidation(a) ==
    IF a.member_id <= 0 THEN "Member ID must be a positive integer."
    ELSE IF a.trainer_id <= 0 THEN "Trainer ID must be a positive integer."
    ELSE IF a.room_id # None /\ a.room_id <= 0 THEN "Room ID must be a positive integer."
    ELSE IF a.session_date < today THEN "Session date cannot be in the past."
    ELSE IF a.session_date - today > 365
         THEN "Session date cannot be more than 1 year in the future."
    ELSE IF a.start_time >= a.end_time THEN "Start time must be before end time."
    ELSE IF a.end_time - a.start_time < 15
         THEN "Session duration must be at least 15 minutes."
    ELSE IF a.end_time - a.start_time > 480 THEN "Session duration cannot exceed 8 hours."
    ELSE IF a.session_type \notin valid_types
         THEN "Session type must be one of: valid_types"
    ELSE IF a.session_type = GROUP_CLASS
            /\ (a.max_capacity = None \/ a.max_capacity <= 0)
                 THEN "Group classes must have a positive max capacity."
    ELSE IF a.session_type = GROUP_CLASS /\ a.max_capacity > 100
         THEN "Max capacity cannot exceed 100."
    ELSE OK

ScheduleLookups(a) ==
    IF ~MemberExists(a.member_id) THEN "Member not found."
    ELSE IF ~TrainerExists(a.trainer_id) THEN "Trainer not found."
    ELSE IF Truthy(a.room_id) /\ ~RoomExists(a.room_id) THEN "Room not found."
    ELSE IF /\ Truthy(a.room_id)
            /\ a.session_type = GROUP_CLASS
            /\ Truthy(a.max_capacity)
            /\ Truthy(RoomCapacity(a.room_id))
            /\ a.max_capacity > RoomCapacity(a.room_id)
                 THEN "Max capacity exceeds room capacity."
    ELSE OK

\* The same checks with the room scanned before the trainer.
ScheduleConflictsRoomFirst(a) ==
    IF /\ Truthy(a.room_id)
       /\ RoomConflictRows(a.room_id, a.session_date, a.start_time, a.end_time) # {}
    THEN "Room is already booked."
    ELSE IF TrainerConflictRows(a.trainer_id, a.session_date, a.start_time, a.end_time) # {}
    THEN "Trainer has a conflicting session."
    ELSE IF MemberConflictRows(a.member_id, a.session_date, a.start_time, a.end_time) # {}
    THEN "Member already has a session scheduled at this time."
    ELSE OK

ScheduleConflicts(a) ==
    IF TrainerConflictRows(a.trainer_id, a.session_date, a.start_time, a.end_time) # {}
    THEN "Trainer has a conflicting session."
    ELSE IF /\ Truthy(a.room_id)
            /\ RoomConflictRows(a.room_id, a.session_date, a.start_time, a.end_time) # {}
    THEN "Room is already booked."
    ELSE IF MemberConflictRows(a.member_id, a.session_date, a.start_time, a.end_time) # {}
    THEN "Member already has a session scheduled at this time."
    ELSE OK

ScheduleOutcome(a) ==
    IF ScheduleValidation(a) # OK THEN ScheduleValidation(a)
    ELSE IF ScheduleLookups(a) # OK THEN ScheduleLookups(a)
    ELSE ScheduleConflicts(a)

NewSession(a) ==
    [ MemberID |-> a.member_id,
      TrainerID |-> a.trainer_id,
      RoomID |-> a.room_id,
      SessionDate |-> a.session_date,
      StartTime |-> a.start_time,
      EndTime |-> a.end_time,
      DurationMinutes |-> IF a.duration_minutes = None
                          THEN a.end_time - a.start_time
                          ELSE a.duration_minutes,
      SessionType |-> a.session_type,
      MaxCapacity |-> a.max_capacity ]

schedule_pt_session(a) ==
    LET outcome == ScheduleOutcome(a) IN
    /\ outcome = OK => Len(sessions) < MaxSessions
    /\ sessions' = IF outcome = OK THEN Append(sessions, NewSession(a)) ELSE sessions
    /\ last' = [op |-> "schedule_pt_session", outcome |-> outcome,
                id |-> IF outcome = OK THEN Len(sessions) + 1 ELSE None,
                queried |-> ScheduleValidation(a) = OK]
    /\ EndOfCall(outcome, FALSE)
    /\ UNCHANGED <<inflight, today, fitnessGoals, healthMetrics, issues, invoices>>

----------------------------------------------------------------------------
(* assign_room_booking *)

\* A scan that only asks whether the session starts inside another booking.
AssignRoomConflictRowsStartOnly(session_id, room_id) ==
    { i \in DOMAIN sessions :
        /\ sessions[i].RoomID = room_id
        /\ sessions[i].SessionDate = sessions[session_id].SessionDate
        /\ sessions[i].StartTime <= sessions[session_id].StartTime
        /\ sessions[i].EndTime > sessions[session_id].StartTime
        /\ i # session_id }

AssignRoomConflictRows(session_id, room_id) ==
    { i \in DOMAIN sessions :
        /\ sessions[i].RoomID = room_id
        /\ sessions[i].SessionDate = sessions[session_id].SessionDate
        /\ sessions[i].StartTime < sessions[session_id].EndTime
        /\ sessions[i].EndTime > sessions[session_id].StartTime
        /\ i # session_id }

\* Argument checks that leave the room id unchecked.
AssignRoomValidationNoRoomId(session_id, room_id) ==
    IF session_id <= 0 THEN "Session ID must be a positive integer."
    ELSE OK

\* The argument checks, made before the first db.query.
AssignRoomValidation(session_id, room_id) ==
    IF session_id <= 0 THEN "Session ID must be a positive integer."
    ELSE IF room_id <= 0 THEN "Room ID must be a positive integer."
    ELSE OK

\* An outcome that accepts the session's current room.
AssignRoomOutcomeSameRoom(session_id, room_id) ==
    IF AssignRoomValidation(session_id, room_id) # OK
         THEN AssignRoomValidation(session_id, room_id)
    ELSE IF ~SessionExists(session_id) THEN "Session not found."
    ELSE IF sessions[session_id].SessionDate < today
         THEN "Cannot assign room to a past session."
    ELSE IF ~RoomExists(room_id) THEN "Room not found."
    ELSE IF /\ sessions[session_id].SessionType = GROUP_CLASS
            /\ Truthy(sessions[session_id].MaxCapacity)
            /\ Truthy(RoomCapacity(room_id))
            /\ sessions[session_id].MaxCapacity > RoomCapacity(room_id)
                 THEN "Max capacity exceeds room capacity."
    ELSE IF AssignRoomConflictRows(session_id, room_id) # {} THEN "Room is already booked."
    ELSE OK

AssignRoomOutcome(session_id, room_id) ==
    IF AssignRoomValidation(session_id, room_id) # OK
         THEN AssignRoomValidation(session_id, room_id)
    ELSE IF ~SessionExists(session_id) THEN "Session not found."
    ELSE IF sessions[session_id].SessionDate < today
         THEN "Cannot assign room to a past session."
    ELSE IF ~RoomExists(room_id) THEN "Room not found."
    ELSE IF sessions[session_id].RoomID = room_id
         THEN "Room is already assigned to this session."
    ELSE IF /\ sessions[session_id].SessionType = GROUP_CLASS
            /\ Truthy(sessions[session_id].MaxCapacity)
            /\ Truthy(RoomCapacity(room_id))
            /\ sessions[session_id].MaxCapacity > RoomCapacity(room_id)
                 THEN "Max capacity exceeds room capacity."
    ELSE IF AssignRoomConflictRows(session_id, room_id) # {} THEN "Room is already booked."
    ELSE OK

assign_room_booking(session_id, room_id) ==
    LET outcome == AssignRoomOutcome(session_id, room_id) IN
    /\ sessions' = IF outcome = OK
                   THEN [sessions EXCEPT ![session_id].RoomID = room_id]
                   ELSE sessions
    /\ last' = [op |-> "assign_room_booking", outcome |-> outcome,
                id |-> IF outcome = OK THEN session_id ELSE None,
                queried |-> AssignRoomValidation(session_id, room_id) = OK]
    /\ EndOfCall(outcome, FALSE)
    /\ UNCHANGED <<inflight, today, fitnessGoals, healthMetrics, issues, invoices>>

----------------------------------------------------------------------------
(* log_maintenance_issue: a is the record of its arguments. *)

valid_priorities == {"Low", "Medium", "High", "Critical"}
valid_statuses == {"Open", "In Progress", "Resolved", "Closed"}

AdminExists(admin_id) == admin_id \in AdminIDs
IssueExists(issue_id) == issue_id \in DOMAIN issues

\* The argument checks, made before the first db.query.
LogIssueValidation(a) ==
    IF a.room_id <= 0 THEN "Room ID must be a positive integer."
    ELSE IF a.admin_id <= 0 THEN "Admin ID must be a positive integer."
    ELSE IF ~TruthyText(a.issue_description) \/ Strip(a.issue_description) = << >>
         THEN "Issue description is required and cannot be empty."
    ELSE IF Len(a.issue_description) > 1000
         THEN "Issue description cannot exceed 1000 characters."
    ELSE IF TruthyText(a.equipment_name) /\ Len(a.equipment_name) > 100
         THEN "Equipment name cannot exceed 100 characters."
    ELSE IF a.priority \notin valid_priorities
         THEN "Priority must be one of: valid_priorities"
    ELSE IF a.reported_date # None /\ a.reported_date > today
         THEN "Reported date cannot be in the future."
    ELSE IF a.reported_date # None /\ today - a.reported_date > 3650
         THEN "Reported date is too far in the past."
    ELSE OK

LogIssueOutcome(a) ==
    IF LogIssueValidation(a) # OK THEN LogIssueValidation(a)
    ELSE IF ~RoomExists(a.room_id) THEN "Room not found."
    ELSE IF ~AdminExists(a.admin_id) THEN "Admin staff not found."
    ELSE OK

NewIssue(a) ==
    [ RoomID |-> a.room_id,
      AdminID |-> a.admin_id,
      IssueDescription |-> Strip(a.issue_description),
      EquipmentName |-> IF TruthyText(a.equipment_name)
                        THEN Strip(a.equipment_name) ELSE NoneText,
      ReportedDate |-> IF a.reported_date # None THEN a.reported_date ELSE today,
      Priority |-> a.priority,
      Status |-> "Open",
      AssignedRepairDate |-> None,
      ResolutionDate |-> None,
      ResolutionNotes |-> NoneText ]

log_maintenance_issue(a) ==
    LET outcome == LogIssueOutcome(a) IN
    /\ outcome = OK => Len(issues) < MaxIssues
    /\ issues' = IF outcome = OK THEN Append(issues, NewIssue(a)) ELSE issues
    /\ last' = [op |-> "log_maintenance_issue", outcome |-> outcome,
                id |-> IF outcome = OK THEN Len(issues) + 1 ELSE None,
                queried |-> LogIssueValidation(a) = OK]
    /\ EndOfCall(outcome, FALSE)
    /\ UNCHANGED <<inflight, today, fitnessGoals, sessions, healthMetrics, invoices>>

----------------------------------------------------------------------------
(* update_maintenance_status: a is the record of its arguments. *)

\* A guard without the check on resolved issues.
TransitionOutcomeClosedOnly(from, status) ==
    IF from = "Closed" /\ status # "Closed" THEN "Cannot change status of a closed issue."
    ELSE OK

\* A guard without the check on closed issues.
TransitionOutcomeResolvedOnly(from, status) ==
    IF from = "Resolved" /\ status \notin {"Resolved", "Closed"}
         THEN "Resolved issues can only be closed."
    ELSE OK

\* The two transition checks, made when a status is given.
TransitionOutcome(from, status) ==
    IF from = "Closed" /\ status # "Closed" THEN "Cannot change status of a closed issue."
    ELSE IF from = "Resolved" /\ status \notin {"Resolved", "Closed"}
         THEN "Resolved issues can only be closed."
    ELSE OK

\* The checks of a resolution date without the one on the status of the issue.
ResolutionDateOutcomeAnyStatus(issue, a) ==
    IF a.resolution_date < issue.ReportedDate
         THEN "Resolution date cannot be before reported date."
    ELSE IF a.resolution_date > today THEN "Resolution date cannot be in the future."
    ELSE IF a.assigned_repair_date # None /\ a.resolution_date < a.assigned_repair_date
         THEN "Resolution date cannot be before assigned repair date."
    ELSE OK

\* The checks on the status requested in the call, where one is requested.
ResolutionDateOutcomeRequested(issue, a) ==
    IF (IF TruthyStr(a.status) THEN a.status ELSE issue.Status) \notin {"Resolved", "Closed"}
         THEN "Cannot set resolution date unless status is 'Resolved' or 'Closed'."
    ELSE IF a.resolution_date < issue.ReportedDate
         THEN "Resolution date cannot be before reported date."
    ELSE IF a.resolution_date > today THEN "Resolution date cannot be in the future."
    ELSE IF a.assigned_repair_date # None /\ a.resolution_date < a.assigned_repair_date
         THEN "Resolution date cannot be before assigned repair date."
    ELSE OK

\* The checks made when a resolution date is given: on the Status the issue has
\* before the call, and on the repair date passed in the same call.
ResolutionDateOutcome(issue, a) ==
    IF issue.Status \notin {"Resolved", "Closed"}
         THEN "Cannot set resolution date unless status is 'Resolved' or 'Closed'."
    ELSE IF a.resolution_date < issue.ReportedDate
         THEN "Resolution date cannot be before reported date."
    ELSE IF a.resolution_date > today THEN "Resolution date cannot be in the future."
    ELSE IF a.assigned_repair_date # None /\ a.resolution_date < a.assigned_repair_date
         THEN "Resolution date cannot be before assigned repair date."
    ELSE OK

\* The argument checks, made before the first db.query.
UpdateIssueValidation(a) ==
    IF a.issue_id <= 0 THEN "Issue ID must be a positive integer."
    ELSE IF /\ a.status = NoneStr /\ a.assigned_repair_date = None
            /\ a.resolution_date = None /\ a.resolution_notes = NoneText
         THEN "At least one field must be provided for update."
    ELSE OK

UpdateIssueOutcome(a) ==
    IF UpdateIssueValidation(a) # OK THEN UpdateIssueValidation(a)
    ELSE IF ~IssueExists(a.issue_id) THEN "Maintenance issue not found."
    ELSE IF TruthyStr(a.status) /\ a.status \notin valid_statuses
         THEN "Status must be one of: valid_statuses"
    ELSE IF TruthyStr(a.status)
            /\ TransitionOutcome(issues[a.issue_id].Status, a.status) # OK
         THEN TransitionOutcome(issues[a.issue_id].Status, a.status)
    ELSE IF /\ a.assigned_repair_date # None
            /\ a.assigned_repair_date < issues[a.issue_id].ReportedDate
         THEN "Assigned repair date cannot be before reported date."
    ELSE IF a.assigned_repair_date # None /\ a.assigned_repair_date > today + 364
         THEN "Assigned repair date cannot be more than 1 year in the future."
    ELSE IF a.resolution_date # None /\ ResolutionDateOutcome(issues[a.issue_id], a) # OK
         THEN ResolutionDateOutcome(issues[a.issue_id], a)
    ELSE IF TruthyText(a.resolution_notes) /\ Len(a.resolution_notes) > 1000
         THEN "Resolution notes cannot exceed 1000 characters."
    ELSE OK

UpdatedIssue(issue, a) ==
    [ issue EXCEPT
        !.Status = IF TruthyStr(a.status) THEN a.status ELSE @,
        !.AssignedRepairDate =
            IF a.assigned_repair_date # None THEN a.assigned_repair_date ELSE @,
        !.ResolutionDate = IF a.resolution_date # None THEN a.resolution_date ELSE @,
        !.ResolutionNotes =
            IF TruthyText(a.resolution_notes) THEN Strip(a.resolution_notes) ELSE @ ]

update_maintenance_status(a) ==
    LET outcome == UpdateIssueOutcome(a) IN
    /\ issues' = IF outcome = OK
                 THEN [issues EXCEPT ![a.issue_id] = UpdatedIssue(@, a)]
                 ELSE issues
    /\ last' = [op |-> "update_maintenance_status", outcome |-> outcome,
                id |-> IF outcome = OK THEN a.issue_id ELSE None,
                queried |-> UpdateIssueValidation(a) = OK]
    /\ EndOfCall(outcome, FALSE)
    /\ UNCHANGED <<inflight, today, fitnessGoals, sessions, healthMetrics, invoices>>

----------------------------------------------------------------------------
(* create_invoice: a is the record of its arguments.  Amounts are in           *)
(* thousandths of the currency unit.                                           *)

InvoiceExists(invoice_id) == invoice_id \in DOMAIN invoices

\* round(amount, 2), for an amount that is not halfway between two hundredths.
Round2(amount) == ((amount + 5) \div 10) * 10

CreateInvoiceValidation(a) ==
    IF a.payer_id <= 0 THEN "Payer ID must be a positive integer."
    ELSE IF ~TruthyText(a.invoice_number) \/ Strip(a.invoice_number) = << >>
         THEN "Invoice number is required and cannot be empty."
    ELSE IF Len(a.invoice_number) > 50 THEN "Invoice number cannot exceed 50 characters."
    ELSE IF ~TruthyText(a.service_description) \/ Strip(a.service_description) = << >>
         THEN "Service description is required and cannot be empty."
    ELSE IF Len(a.service_description) > 500
         THEN "Service description cannot exceed 500 characters."
    ELSE IF a.session_id # None /\ a.session_id <= 0
         THEN "Session ID must be a positive integer."
    ELSE IF a.invoice_date > today THEN "Invoice date cannot be in the future."
    ELSE IF today - a.invoice_date > 3650 THEN "Invoice date is too far in the past."
    ELSE IF a.due_date < a.invoice_date THEN "Due date cannot be before invoice date."
    ELSE IF a.due_date - a.invoice_date > 365
         THEN "Due date cannot be more than 1 year after invoice date."
    ELSE IF a.amount <= 0 THEN "Invoice amount must be positive."
    ELSE IF a.amount > 1000000000 THEN "Invoice amount exceeds maximum limit."
    ELSE IF TruthyText(a.payment_method) /\ Len(a.payment_method) > 50
         THEN "Payment method cannot exceed 50 characters."
    ELSE OK

\* Lookups that accept a session of any member.
CreateInvoiceLookupsAnySession(a) ==
    IF ~MemberExists(a.payer_id) THEN "Member not found."
    ELSE IF Truthy(a.session_id) /\ ~SessionExists(a.session_id)
         THEN "Session not found."
    ELSE IF \E i \in DOMAIN invoices : invoices[i].InvoiceNumber = a.invoice_number
         THEN "Invoice number already exists."
    ELSE OK

CreateInvoiceLookups(a) ==
    IF ~MemberExists(a.payer_id) THEN "Member not found."
    ELSE IF Truthy(a.session_id) /\ ~SessionExists(a.session_id)
         THEN "Session not found."
    ELSE IF Truthy(a.session_id) /\ sessions[a.session_id].MemberID # a.payer_id
         THEN "Session does not belong to member."
    ELSE IF \E i \in DOMAIN invoices : invoices[i].InvoiceNumber = a.invoice_number
         THEN "Invoice number already exists."
    ELSE OK

NewInvoice(a) ==
    [ InvoiceNumber |-> Strip(a.invoice_number),
      PayerID |-> a.payer_id,
      SessionID |-> a.session_id,
      InvoiceDate |-> a.invoice_date,
      DueDate |-> a.due_date,
      Amount |-> Round2(a.amount),
      PaymentMethod |-> IF TruthyText(a.payment_method)
                        THEN Strip(a.payment_method) ELSE NoneText,
      PaymentStatus |-> "Pending",
      ServiceDescription |-> Strip(a.service_description),
      PaidDate |-> None ]

\* The String(n) columns of Invoice are narrower than the argument checks: the
\* INSERT or UPDATE raises a store error for a longer value.
InvoiceColumnsFit(row) ==
    /\ Len(row.InvoiceNumber) <= 20
    /\ row.PaymentMethod = NoneText \/ Len(row.PaymentMethod) <= 30
    /\ Len(row.ServiceDescription) <= 200

\* A column InvoiceNumber without the unique constraint.
InvoiceNumberUnconstrained(row) == TRUE

\* Column(String(20), unique=True): the INSERT raises IntegrityError.
InvoiceNumberUnique(row) ==
    \A i \in DOMAIN invoices : invoices[i].InvoiceNumber # row.InvoiceNumber

CreateInvoiceOutcome(a) ==
    IF CreateInvoiceValidation(a) # OK THEN CreateInvoiceValidation(a)
    ELSE IF CreateInvoiceLookups(a) # OK THEN CreateInvoiceLookups(a)
    ELSE IF ~InvoiceColumnsFit(NewInvoice(a)) THEN "Failed to create invoice: store error"
    ELSE IF ~InvoiceNumberUnique(NewInvoice(a)) THEN "Invoice number already exists."
    ELSE OK

create_invoice(a) ==
    LET outcome == CreateInvoiceOutcome(a) IN
    /\ outcome = OK => Len(invoices) < MaxInvoices
    /\ invoices' = IF outcome = OK THEN Append(invoices, NewInvoice(a)) ELSE invoices
    /\ last' = [op |-> "create_invoice", outcome |-> outcome,
                id |-> IF outcome = OK THEN Len(invoices) + 1 ELSE None,
                queried |-> CreateInvoiceValidation(a) = OK]
    /\ EndOfCall(outcome, CreateInvoiceValidation(a) = OK /\ CreateInvoiceLookups(a) = OK)
    /\ UNCHANGED <<inflight, today, fitnessGoals, sessions, healthMetrics, issues>>

----------------------------------------------------------------------------
(* record_payment *)

PaidInvoice(invoice, payment_method, paid_date) ==
    [ invoice EXCEPT
        !.PaymentStatus = "Paid",
        !.PaymentMethod = Strip(payment_method),
        !.PaidDate = IF paid_date # None THEN paid_date ELSE today ]

\* Argument checks that accept a paid date in the future.
RecordPaymentValidationAnyDate(invoice_id, payment_method, paid_date) ==
    IF invoice_id <= 0 THEN "Invoice ID must be a positive integer."
    ELSE IF ~TruthyText(payment_method) \/ Strip(payment_method) = << >>
         THEN "Payment method is required and cannot be empty."
    ELSE IF Len(payment_method) > 50 THEN "Payment method cannot exceed 50 characters."
    ELSE OK

\* The argument checks, made before the first db.query.
RecordPaymentValidation(invoice_id, payment_method, paid_date) ==
    IF invoice_id <= 0 THEN "Invoice ID must be a positive integer."
    ELSE IF ~TruthyText(payment_method) \/ Strip(payment_method) = << >>
         THEN "Payment method is required and cannot be empty."
    ELSE IF Len(payment_method) > 50 THEN "Payment method cannot exceed 50 characters."
    ELSE IF paid_date # None /\ paid_date > today THEN "Paid date cannot be in the future."
    ELSE OK

\* The checks without the one on an invoice that is already paid.
RecordPaymentOutcomeRepay(invoice_id, payment_method, paid_date) ==
    IF invoice_id <= 0 THEN "Invoice ID must be a positive integer."
    ELSE IF ~TruthyText(payment_method) \/ Strip(payment_method) = << >>
         THEN "Payment method is required and cannot be empty."
    ELSE IF Len(payment_method) > 50 THEN "Payment method cannot exceed 50 characters."
    ELSE IF paid_date # None /\ paid_date > today THEN "Paid date cannot be in the future."
    ELSE IF ~InvoiceExists(invoice_id) THEN "Invoice not found."
    ELSE IF paid_date # None /\ paid_date < invoices[invoice_id].InvoiceDate
         THEN "Paid date cannot be before invoice date."
    ELSE IF ~InvoiceColumnsFit(PaidInvoice(invoices[invoice_id], payment_method, paid_date))
         THEN "Failed to record payment: store error"
    ELSE OK

RecordPaymentOutcome(invoice_id, payment_method, paid_date) ==
    IF RecordPaymentValidation(invoice_id, payment_method, paid_date) # OK
         THEN RecordPaymentValidation(invoice_id, payment_method, paid_date)
    ELSE IF ~InvoiceExists(invoice_id) THEN "Invoice not found."
    ELSE IF invoices[invoice_id].PaymentStatus = "Paid"
         THEN "Invoice is already marked as paid."
    ELSE IF paid_date # None /\ paid_date < invoices[invoice_id].InvoiceDate
         THEN "Paid date cannot be before invoice date."
    ELSE IF ~InvoiceColumnsFit(PaidInvoice(invoices[invoice_id], payment_method, paid_date))
         THEN "Failed to record payment: store error"
    ELSE OK

record_payment(invoice_id, payment_method, paid_date) ==
    LET outcome == RecordPaymentOutcome(invoice_id, payment_method, paid_date) IN
    /\ invoices' = IF outcome = OK
                   THEN [invoices EXCEPT
                           ![invoice_id] = PaidInvoice(@, payment_method, paid_date)]
                   ELSE invoices
    /\ last' = [op |-> "record_payment", outcome |-> outcome,
                id |-> IF outcome = OK THEN invoice_id ELSE None,
                queried |-> RecordPaymentValidation(invoice_id, payment_method, paid_date) = OK]
    /\ EndOfCall(outcome, outcome = "Failed to record payment: store error")
    /\ UNCHANGED <<inflight, today, fitnessGoals, sessions, healthMetrics, issues>>

----------------------------------------------------------------------------
(* set_availability *)

\* The argument checks, made before the first db.query.
SetAvailabilityValidation(trainer_id, session_date, start_time, end_time) ==
    IF trainer_id <= 0 THEN "Trainer ID must be a positive integer."
    ELSE IF session_date < today THEN "Availability date cannot be in the past."
    ELSE IF session_date - today > 365
         THEN "Availability date cannot be more than 1 year in the future."
    ELSE IF start_time >= end_time THEN "Start time must be before end time."
    ELSE IF end_time - start_time < 15
         THEN "Availability slot must be at least 15 minutes."
    ELSE IF end_time - start_time > 1440 THEN "Availability slot cannot exceed 24 hours."
    ELSE OK

SetAvailabilityOutcome(trainer_id, session_date, start_time, end_time) ==
    IF SetAvailabilityValidation(trainer_id, session_date, start_time, end_time) # OK
         THEN SetAvailabilityValidation(trainer_id, session_date, start_time, end_time)
    ELSE IF ~TrainerExists(trainer_id) THEN "Trainer not found."
    ELSE IF TrainerConflictRows(trainer_id, session_date, start_time, end_time) # {}
         THEN "Time slot conflicts with existing session."
    ELSE OK

\* An availability that is stored as a session of the trainer, and so blocks
\* the slot.
AvailabilityRowsBlocking(trainer_id, session_date, start_time, end_time) ==
    IF /\ SetAvailabilityOutcome(trainer_id, session_date, start_time, end_time) = OK
       /\ Len(sessions) < MaxSessions
    THEN Append(sessions,
                [ MemberID |-> None, TrainerID |-> trainer_id, RoomID |-> None,
                  SessionDate |-> session_date, StartTime |-> start_time,
                  EndTime |-> end_time, DurationMinutes |-> end_time - start_time,
                  SessionType |-> PERSONAL_TRAINING, MaxCapacity |-> None ])
    ELSE sessions

\* Table PersonalTrainingSession after the call: the function returns a dict and
\* calls neither db.add nor db.commit.
AvailabilityRows(trainer_id, session_date, start_time, end_time) == sessions

set_availability(trainer_id, session_date, start_time, end_time) ==
    LET outcome == SetAvailabilityOutcome(trainer_id, session_date, start_time, end_time)
    IN
    /\ sessions' = AvailabilityRows(trainer_id, session_date, start_time, end_time)
    /\ last' = [op |-> "set_availability", outcome |-> outcome, id |-> None,
                queried |->
                  SetAvailabilityValidation(trainer_id, session_date, start_time,
                                            end_time) = OK]
    /\ UNCHANGED <<inflight, today, members, sessionMembers, healthMetrics, fitnessGoals, issues,
                   invoices>>

----------------------------------------------------------------------------
(* view_schedule *)

\* date(1900, 1, 1), about 126 years before day 0.
Date1900 == 0 - 46000

\* The argument checks, made before the first db.query.
ViewScheduleValidation(trainer_id, from_date) ==
    IF trainer_id <= 0 THEN "Trainer ID must be a positive integer."
    ELSE IF from_date # None /\ from_date < Date1900 THEN "Date cannot be before 1900."
    ELSE IF from_date # None /\ from_date - today > 3650
         THEN "Date cannot be more than 10 years in the future."
    ELSE OK

ViewScheduleOutcome(trainer_id, from_date) ==
    IF ViewScheduleValidation(trainer_id, from_date) # OK
         THEN ViewScheduleValidation(trainer_id, from_date)
    ELSE IF ~TrainerExists(trainer_id) THEN "Trainer not found."
    ELSE OK

\* The sessions returned: those of the trainer from from_date, or from today, on.
ViewScheduleRows(trainer_id, from_date) ==
    { i \in DOMAIN sessions :
        /\ sessions[i].TrainerID = trainer_id
        /\ sessions[i].SessionDate >= (IF from_date # None THEN from_date ELSE today) }

view_schedule(trainer_id, from_date) ==
    LET outcome == ViewScheduleOutcome(trainer_id, from_date) IN
    /\ last' = [op |-> "view_schedule", outcome |-> outcome, id |-> None,
                queried |-> ViewScheduleValidation(trainer_id, from_date) = OK]
    /\ UNCHANGED <<inflight, today, members, sessionMembers, sessions, healthMetrics, fitnessGoals,
                   issues, invoices>>

----------------------------------------------------------------------------
(* lookup_member, for search terms of letters and spaces. *)

\* s ILIKE %p%: p occurs in s, whatever the case.
ILike(s, p) ==
    \E i \in 0 .. Len(s) - Len(p) : Lower(SubSeq(s, i + 1, i + Len(p))) = Lower(p)

\* search_term_clean.split(): the first and the last word.
FirstWord(s) ==
    IF Contains(s, " ")
    THEN SubSeq(s, 1, (CHOOSE i \in 1 .. Len(s) :
                          s[i] = " " /\ \A j \in 1 .. i - 1 : s[j] # " ") - 1)
    ELSE s

LastWord(s) ==
    IF Contains(s, " ")
    THEN SubSeq(s, (CHOOSE i \in 1 .. Len(s) :
                       s[i] = " " /\ \A j \in i + 1 .. Len(s) : s[j] # " ") + 1, Len(s))
    ELSE s

\* The argument checks, made before the first db.query.
LookupValidation(search_term) ==
    IF ~TruthyText(search_term) \/ Strip(search_term) = << >>
         THEN "Search term cannot be empty."
    ELSE IF Len(search_term) > 100 THEN "Search term cannot exceed 100 characters."
    ELSE OK

\* The Member rows matched, by the values stored in the table.
LookupRows(search_term) ==
    LET term == Strip(search_term) IN
    IF Contains(term, " ")
    THEN { i \in DOMAIN members :
             \/ ILike(members[i].FirstName, FirstWord(term))
                /\ ILike(members[i].LastName, LastWord(term))
             \/ ILike(members[i].LastName, FirstWord(term))
                /\ ILike(members[i].FirstName, LastWord(term))
             \/ ILike(members[i].FirstName, term)
             \/ ILike(members[i].LastName, term)
             \/ ILike(members[i].FirstName \o <<" ">> \o members[i].LastName, term) }
    ELSE { i \in DOMAIN members :
             \/ ILike(members[i].FirstName, term)
             \/ ILike(members[i].LastName, term) }

\* .limit(100)
LookupLimit == 100

\* The row sets that a query without ORDER BY can return under LIMIT n: the store
\* leaves out any rows beyond n.
RECURSIVE Limit(_, _)
Limit(rows, n) ==
    IF Cardinality(rows) <= n THEN {rows}
    ELSE UNION { Limit(rows \ {x}, n) : x \in rows }

\* The members lookup_member can return.
LookupPicks(search_term) == Limit(LookupRows(search_term), LookupLimit)

\* The rows that ORDER BY date can put first: those with the smallest date.
FirstAscending(dates) ==
    { i \in DOMAIN dates : \A j \in DOMAIN dates : dates[j] >= dates[i] }

\* The rows that ORDER BY date DESC can put first: those with a NULL date if
\* there are any, else those with the greatest date.
FirstDescending(dates) ==
    IF \E i \in DOMAIN dates : dates[i] = None
    THEN { i \in DOMAIN dates : dates[i] = None }
    ELSE { i \in DOMAIN dates : \A j \in DOMAIN dates : dates[j] <= dates[i] }

\* latest_goal: .filter(MemberID == member.MemberID).order_by(SetDate.desc())
\* .first(), a row id or None.
LatestGoals(member_id) ==
    LET rows == { i \in DOMAIN fitnessGoals : fitnessGoals[i].MemberID = member_id }
        first == FirstDescending([i \in rows |-> fitnessGoals[i].SetDate])
    IN  IF rows = {} THEN {None} ELSE first

\* latest_metric: .filter(MemberID == member.MemberID)
\* .order_by(RecordedDate.desc()).first(), a row id or None.
LatestMetrics(member_id) ==
    LET rows == { i \in DOMAIN healthMetrics : healthMetrics[i].MemberID = member_id }
        first == FirstDescending([i \in rows |-> healthMetrics[i].RecordedDate])
    IN  IF rows = {} THEN {None} ELSE first

lookup_member(search_term) ==
    LET outcome == LookupValidation(search_term) IN
    /\ last' = [op |-> "lookup_member", outcome |-> outcome, id |-> None,
                queried |-> outcome = OK]
    /\ UNCHANGED <<inflight, today, members, sessionMembers, sessions, healthMetrics, fitnessGoals,
                   issues, invoices>>

----------------------------------------------------------------------------
(* Concurrent callers.  Each caller runs the function in a db session of its   *)
(* own on a store at the default isolation level: its queries see what was     *)
(* committed when they run, and another caller can commit between the last     *)
(* query of a call and its commit.  A call is two steps: the checks and        *)
(* queries, then the insert and commit.                                        *)

\* The INSERT into PersonalTrainingSession with a constraint that excludes
\* overlapping intervals of one trainer on one date.
SessionCommitOutcomeExclusive(row) ==
    IF \E i \in DOMAIN sessions :
          /\ sessions[i].TrainerID = row.TrainerID
          /\ sessions[i].SessionDate = row.SessionDate
          /\ sessions[i].StartTime < row.EndTime
          /\ sessions[i].EndTime > row.StartTime
    THEN "Failed to schedule session: store error"
    ELSE OK

\* The INSERT into PersonalTrainingSession: the table has a primary key and
\* foreign keys to rows that no operation deletes, and no other constraint.
SessionCommitOutcome(row) == OK

\* schedule_pt_session up to its try block: the argument checks, the lookups and
\* the conflict scans on the committed rows.
schedule_scan(c, a) ==
    LET outcome == ScheduleOutcome(a) IN
    /\ inflight[c] = Idle
    /\ inflight' = IF outcome = OK
                   THEN [inflight EXCEPT ![c] = [op |-> "schedule_pt_session", a |-> a,
                                                 seen |-> Len(sessions)]]
                   ELSE inflight
    /\ last' = IF outcome = OK THEN last
               ELSE [op |-> "schedule_pt_session", outcome |-> outcome, id |-> None,
                     queried |-> ScheduleValidation(a) = OK]
    /\ UNCHANGED <<today, members, sessionMembers, sessions, healthMetrics, fitnessGoals,
                   issues, invoices>>

\* schedule_pt_session from its try block on: db.add, db.commit, and db.rollback
\* when the commit fails.
schedule_commit(c) ==
    LET row == NewSession(inflight[c].a)
        outcome == SessionCommitOutcome(row)
    IN
    /\ inflight[c].op = "schedule_pt_session"
    /\ outcome = OK => Len(sessions) < MaxSessions
    /\ sessions' = IF outcome = OK THEN Append(sessions, row) ELSE sessions
    /\ inflight' = [inflight EXCEPT ![c] = Idle]
    /\ last' = [op |-> "schedule_pt_session", outcome |-> outcome,
                id |-> IF outcome = OK THEN Len(sessions) + 1 ELSE None,
                queried |-> TRUE]
    /\ UNCHANGED <<today, members, sessionMembers, healthMetrics, fitnessGoals, issues,
                   invoices>>

\* register_member up to its try block: the argument checks and the lookup of
\* the email among the committed rows.
register_scan(c, a) ==
    LET outcome == IF RegisterValidation(a) # OK THEN RegisterValidation(a)
                   ELSE IF EmailRows(a.email) # {}
                        THEN "Email already exists. Registration failed."
                   ELSE OK
    IN
    /\ inflight[c] = Idle
    /\ inflight' = IF outcome = OK
                   THEN [inflight EXCEPT ![c] = [op |-> "register_member", a |-> a,
                                                 seen |-> Len(members)]]
                   ELSE inflight
    /\ last' = IF outcome = OK THEN last
               ELSE [op |-> "register_member", outcome |-> outcome, id |-> None,
                     queried |-> RegisterValidation(a) = OK]
    /\ UNCHANGED <<today, members, sessionMembers, sessions, healthMetrics, fitnessGoals,
                   issues, invoices>>

\* An Email column without the unique constraint.
MemberCommitOutcomeUnconstrained(row) ==
    IF ~MemberColumnsFit(row) THEN "Registration failed: store error" ELSE OK

\* The INSERT into Member and the commit: IntegrityError of the unique Email
\* column, or a store error of a value longer than its column.
MemberCommitOutcome(row) ==
    IF ~MemberEmailUnique(row) THEN "Email already exists. Registration failed."
    ELSE IF ~MemberColumnsFit(row) THEN "Registration failed: store error"
    ELSE OK

\* register_member from its try block on: db.add, db.commit, and db.rollback
\* when the commit fails; the ValueError it raises then has the store's
\* exception as its cause.  The other callers' sessions hold no pending change.
register_commit(c) ==
    LET row == NewMember(inflight[c].a)
        outcome == MemberCommitOutcome(row)
    IN
    /\ inflight[c].op = "register_member"
    /\ outcome = OK => Len(members) < MaxMembers
    /\ members' = IF outcome = OK THEN Append(members, row) ELSE members
    /\ sessionMembers' = members'
    /\ inflight' = [inflight EXCEPT ![c] = Idle]
    /\ last' = [op |-> "register_member", outcome |-> outcome,
                id |-> IF outcome = OK THEN Len(members) + 1 ELSE None,
                queried |-> TRUE,
                cause |-> IF outcome = OK THEN NoneStr
                          ELSE IF ~MemberEmailUnique(row) THEN "IntegrityError"
                          ELSE "Exception"]
    /\ UNCHANGED <<today, sessions, healthMetrics, fitnessGoals, issues, invoices>>

----------------------------------------------------------------------------
(* A commit that the store fails, for a reason outside the arguments: the      *)
(* except block of every writing function calls db.rollback() and raises       *)
(* ValueError with the function's message.                                     *)

\* The session's Member objects when db.rollback() is not called: what the call
\* had staged stays in the session.
RollbackSkipped(staged) == staged

\* The session's Member objects after db.rollback(): what the call and the calls
\* before it had staged is discarded, the objects are the committed rows.
Rollback(staged) == members

\* A call of function op that reached db.commit() with the Member objects staged
\* in its session, and whose commit raised.
commit_fails(op, reached, staged, message) ==
    /\ reached
    /\ sessionMembers' = Rollback(staged)
    /\ last' = [op |-> op, outcome |-> message, id |-> None, queried |-> TRUE]
    /\ UNCHANGED <<inflight, today, members, sessions, healthMetrics, fitnessGoals,
                   issues, invoices>>

----------------------------------------------------------------------------
(* The clock: date.today() moves forward between calls. *)

NextDay ==
    /\ today < MaxDay
    /\ today' = today + 1
    /\ UNCHANGED <<members, sessionMembers, sessions, healthMetrics, fitnessGoals, issues,
                   invoices, last, inflight>>

----------------------------------------------------------------------------
(* Scheduling and room booking over the seeded members, trainers and rooms. *)

\* 10:00-11:00, 10:30-11:30 and 11:00-12:00: the first two overlap, the first and
\* the third touch.
SchedIntervals == { <<600, 660>>, <<630, 690>>, <<660, 720>> }

SchedCall(m, t, r, d, start_time, end_time, session_type, duration_minutes, max_capacity) ==
    [ member_id |-> m, trainer_id |-> t, room_id |-> r, session_date |-> d,
      start_time |-> start_time, end_time |-> end_time,
      session_type |-> session_type, duration_minutes |-> duration_minutes,
      max_capacity |-> max_capacity ]

\* Calls that pass the argument checks and the lookups on day 0: every member,
\* trainer, room and interval on date 0, and the first interval without a room
\* on date 1.
SchedValidArgs ==
    { SchedCall(m, t, r, 0, iv[1], iv[2], PERSONAL_TRAINING, None, None) :
      m \in {1, 2}, t \in {1, 2}, r \in {None, 1}, iv \in SchedIntervals }
    \cup
    { SchedCall(m, t, None, 1, 600, 660, PERSONAL_TRAINING, None, None) :
      m \in {1, 2}, t \in {1, 2} }

\* Calls that an argument check or a lookup rejects.
SchedBadArgs ==
    { SchedCall(0, 1, None, 1, 600, 660, PERSONAL_TRAINING, None, None),
      SchedCall(1, 1, None, today - 1, 600, 660, PERSONAL_TRAINING, None, None),
      SchedCall(1, 1, None, 1, 660, 600, PERSONAL_TRAINING, None, None),
      SchedCall(1, 3, None, 1, 600, 660, PERSONAL_TRAINING, None, None),
      SchedCall(1, 1, 5, 1, 600, 660, PERSONAL_TRAINING, None, None) }

SchedArgs == SchedValidArgs \cup SchedBadArgs

NoCall == [op |-> "none", outcome |-> OK, id |-> None, queried |-> FALSE]

InitSched ==
    /\ today = 0
    /\ members = SeedMembers
    /\ sessionMembers = SeedMembers
    /\ sessions = << >>
    /\ healthMetrics = << >>
    /\ fitnessGoals = << >>
    /\ issues = << >>
    /\ invoices = << >>
    /\ last = NoCall
    /\ inflight = NoCalls

ScheduleSession == \E a \in SchedArgs : schedule_pt_session(a)

AssignRoom == \E session_id \in 0 .. MaxSessions + 1, room_id \in {0, 1, 5} :
    assign_room_booking(session_id, room_id)

NextSched == ScheduleSession \/ AssignRoom \/ NextDay

SpecSched == InitSched /\ [][NextSched]_vars

----------------------------------------------------------------------------
(* Claims about scheduling and room booking, checked under SpecSched. *)

\* C1: no two stored sessions with the same TrainerID and the same SessionDate
\* have overlapping intervals (a.StartTime < b.EndTime and a.EndTime > b.StartTime).
C1_NoTrainerOverlap ==
    \A i, j \in DOMAIN sessions :
        ( /\ i # j
          /\ sessions[i].TrainerID = sessions[j].TrainerID
          /\ sessions[i].SessionDate = sessions[j].SessionDate )
        => ~( /\ sessions[i].StartTime < sessions[j].EndTime
              /\ sessions[i].EndTime > sessions[j].StartTime )

\* Two sessions of one trainer on one date are stored, and a further call was
\* refused for a trainer conflict.
C1_Witness ==
    /\ last.op = "schedule_pt_session"
    /\ last.outcome = "Trainer has a conflicting session."
    /\ \E i, j \in DOMAIN sessions :
          /\ i # j
          /\ sessions[i].TrainerID = sessions[j].TrainerID
          /\ sessions[i].SessionDate = sessions[j].SessionDate

\* C2: no two stored sessions with the same non-null RoomID and the same
\* SessionDate have overlapping intervals, also after assign_room_booking.
C2_NoRoomOverlap ==
    \A i, j \in DOMAIN sessions :
        ( /\ i # j
          /\ sessions[i].RoomID # None
          /\ sessions[i].RoomID = sessions[j].RoomID
          /\ sessions[i].SessionDate = sessions[j].SessionDate )
        => ~( /\ sessions[i].StartTime < sessions[j].EndTime
              /\ sessions[i].EndTime > sessions[j].StartTime )

\* assign_room_booking has moved a session into a room that holds another
\* session on that date.
C2_Witness ==
    /\ last.op = "assign_room_booking"
    /\ last.outcome = OK
    /\ \E j \in DOMAIN sessions :
          /\ j # last.id
          /\ sessions[j].RoomID = sessions[last.id].RoomID
          /\ sessions[j].SessionDate = sessions[last.id].SessionDate

\* A call that passes the argument checks and the lookups.
OtherwiseValid(a) ==
    /\ a.member_id \in DOMAIN members
    /\ a.trainer_id \in TrainerIDs
    /\ a.room_id = None \/ a.room_id \in RoomIDs
    /\ a.session_date >= today /\ a.session_date <= today + 365
    /\ a.start_time < a.end_time
    /\ a.end_time - a.start_time >= 15 /\ a.end_time - a.start_time <= 480
    /\ a.session_type = PERSONAL_TRAINING

TrainerHit(a) ==
    \E i \in DOMAIN sessions :
        /\ sessions[i].TrainerID = a.trainer_id
        /\ sessions[i].SessionDate = a.session_date
        /\ sessions[i].StartTime < a.end_time
        /\ sessions[i].EndTime > a.start_time

RoomHit(a) ==
    /\ a.room_id # None
    /\ \E i \in DOMAIN sessions :
        /\ sessions[i].RoomID = a.room_id
        /\ sessions[i].SessionDate = a.session_date
        /\ sessions[i].StartTime < a.end_time
        /\ sessions[i].EndTime > a.start_time

MemberHit(a) ==
    \E i \in DOMAIN sessions :
        /\ sessions[i].MemberID = a.member_id
        /\ sessions[i].SessionDate = a.session_date
        /\ sessions[i].StartTime < a.end_time
        /\ sessions[i].EndTime > a.start_time

TrainerTouch(a) ==
    \E i \in DOMAIN sessions :
        /\ sessions[i].TrainerID = a.trainer_id
        /\ sessions[i].SessionDate = a.session_date
        /\ (sessions[i].EndTime = a.start_time \/ sessions[i].StartTime = a.end_time)

C3_ConflictIffOverlap ==
    \A a \in SchedArgs :
        OtherwiseValid(a) =>
            /\ ScheduleOutcome(a) = "Trainer has a conflicting session." <=> TrainerHit(a)
            /\ (TrainerTouch(a) /\ ~TrainerHit(a) /\ ~RoomHit(a) /\ ~MemberHit(a))
               => ScheduleOutcome(a) = OK

C3_Created ==
    (last'.op = "schedule_pt_session" /\ last'.outcome = OK /\ last' # last)
    => /\ Len(sessions') = Len(sessions) + 1
       /\ last'.id = Len(sessions')
       /\ SubSeq(sessions', 1, Len(sessions)) = sessions

\* C3: an otherwise valid schedule_pt_session call fails with a trainer conflict
\* exactly when a stored session of that trainer on that date has StartTime <
\* end_time and EndTime > start_time; a call whose interval only touches the
\* trainer's sessions is accepted and a session is created.
C3_TrainerConflict == []C3_ConflictIffOverlap /\ [][C3_Created]_vars

\* The last call created a session that touches another session of its trainer.
C3_Witness ==
    /\ last.op = "schedule_pt_session"
    /\ last.outcome = OK
    /\ last.id \in DOMAIN sessions
    /\ \E j \in DOMAIN sessions :
          /\ j # last.id
          /\ sessions[j].TrainerID = sessions[last.id].TrainerID
          /\ sessions[j].SessionDate = sessions[last.id].SessionDate
          /\ sessions[j].EndTime = sessions[last.id].StartTime

C4_Order ==
    \A a \in SchedArgs :
        OtherwiseValid(a) =>
            /\ (TrainerHit(a) /\ (RoomHit(a) \/ MemberHit(a)))
               => ScheduleOutcome(a) = "Trainer has a conflicting session."
            /\ (~TrainerHit(a) /\ RoomHit(a) /\ MemberHit(a))
               => ScheduleOutcome(a) = "Room is already booked."

C4_NothingCreated ==
    ( /\ last'.op = "schedule_pt_session"
      /\ last'.outcome \in
           { "Trainer has a conflicting session.", "Room is already booked.",
             "Member already has a session scheduled at this time." } )
    => sessions' = sessions

\* C4: the conflict checks run trainer, then room, then member, and stop at the
\* first hit: a collision on the trainer and on the room or the member reports the
\* trainer conflict, a collision on the room and the member but not the trainer
\* reports the room conflict, and no session is created.
C4_CheckOrder == []C4_Order /\ [][C4_NothingCreated]_vars

\* A call was refused for a room conflict in a store where some call collides on
\* the room and the member but not on the trainer.
C4_Witness ==
    /\ last.op = "schedule_pt_session"
    /\ last.outcome = "Room is already booked."
    /\ \E a \in SchedArgs :
          OtherwiseValid(a) /\ ~TrainerHit(a) /\ RoomHit(a) /\ MemberHit(a)
    /\ \E a \in SchedArgs :
          OtherwiseValid(a) /\ TrainerHit(a) /\ RoomHit(a) /\ MemberHit(a)

----------------------------------------------------------------------------
(* Registration, from a store with no members. *)

EmailA == << "a", "@", "x", ".", "c" >>
EmailAUpper == << "A", "@", "X", ".", "c" >>
EmailAPadded == << " ", "a", "@", "x", ".", "c", " " >>
EmailB == << "b", "@", "x", ".", "c" >>

RegCall(first_name, last_name, email, date_of_birth, gender, phone, address, membership_status) ==
    [ first_name |-> first_name, last_name |-> last_name, email |-> email,
      date_of_birth |-> date_of_birth, gender |-> gender, phone |-> phone,
      address |-> address, membership_status |-> membership_status ]

\* A date of birth twenty years before day 0.
AdultBirth == 0 - 7300

RegValidArgs ==
    { RegCall(f, <<"d">>, e, b, g, NoneText, NoneText, "Active") :
      f \in { <<" ", "j">> },
      e \in { EmailA, EmailAUpper, EmailAPadded, EmailB },
      b \in { None, AdultBirth },
      g \in { NoneText, <<"f">> } }

\* One call for each check that can reject.
RegBadArgs ==
    { RegCall(<<" ">>, <<"d">>, EmailA, None, NoneText, NoneText, NoneText, "Active"),
      RegCall(<<"j">>, NoneText, EmailA, None, NoneText, NoneText, NoneText, "Active"),
      RegCall(<<"j">>, <<"d">>, <<" ", " ">>, None, NoneText, NoneText, NoneText, "Active"),
      RegCall(<<"j">>, <<"d">>, <<"a", "x", ".", "c">>, None, NoneText, NoneText, NoneText,
              "Active"),
      RegCall(<<"j">>, <<"d">>, <<"a", ".", "b", "@", "x">>, None, NoneText, NoneText,
              NoneText, "Active"),
      RegCall(TextOfLen(51), <<"d">>, EmailA, None, NoneText, NoneText, NoneText, "Active"),
      RegCall(<<"j">>, TextOfLen(51), EmailA, None, NoneText, NoneText, NoneText, "Active"),
      RegCall(<<"j">>, <<"d">>, EmailA \o TextOfLen(96), None, NoneText, NoneText, NoneText,
              "Active"),
      RegCall(<<"j">>, <<"d">>, EmailA, today + 1, NoneText, NoneText, NoneText, "Active"),
      RegCall(<<"j">>, <<"d">>, EmailA, 0 - 50000, NoneText, NoneText, NoneText, "Active"),
      RegCall(<<"j">>, <<"d">>, EmailA, 0 - 365, NoneText, NoneText, NoneText, "Active"),
      RegCall(<<"j">>, <<"d">>, EmailA, None, <<"x">>, NoneText, NoneText, "Active"),
      RegCall(<<"j">>, <<"d">>, EmailA, None, NoneText, NoneText, NoneText, "Gold"),
      RegCall(<<"j">>, <<"d">>, EmailB, None, NoneText, TextOfLen(21), NoneText, "Active") }

RegArgs == RegValidArgs \cup RegBadArgs

InitReg ==
    /\ today = 0
    /\ members = << >>
    /\ sessionMembers = << >>
    /\ sessions = << >>
    /\ healthMetrics = << >>
    /\ fitnessGoals = << >>
    /\ issues = << >>
    /\ invoices = << >>
    /\ last = NoCall
    /\ inflight = NoCalls

RegisterMember == \E a \in RegArgs : register_member(a)

NextReg == RegisterMember \/ NextDay

SpecReg == InitReg /\ [][NextReg]_vars

C5_UniqueEmails ==
    \A i, j \in DOMAIN members : i # j => members[i].Email # members[j].Email

C5_DuplicateRejected ==
    \A a \in RegArgs : \A i \in DOMAIN members :
        (a.email # NoneText /\ Lower(Strip(a.email)) = Lower(Strip(members[i].Email)))
        => RegisterOutcome(a) # OK

C5_NoRowOnFailure ==
    (last'.op = "register_member" /\ last'.outcome # OK) => members' = members

----------------------------------------------------------------------------
(* Maintenance issues, over the seeded rooms and admin staff. *)

IssueCall(room_id, admin_id, issue_description, equipment_name, priority, reported_date) ==
    [ room_id |-> room_id, admin_id |-> admin_id,
      issue_description |-> issue_description, equipment_name |-> equipment_name,
      priority |-> priority, reported_date |-> reported_date ]

LogIssueArgs ==
    { IssueCall(1, 1, <<"t">>, NoneText, "High", None),
      IssueCall(0, 1, <<"t">>, NoneText, "High", None),
      IssueCall(1, 0, <<"t">>, NoneText, "High", None),
      IssueCall(1, 1, <<" ">>, NoneText, "High", None),
      IssueCall(1, 1, TextOfLen(1001), NoneText, "High", None),
      IssueCall(1, 1, <<"t">>, TextOfLen(101), "High", None),
      IssueCall(1, 1, <<"t">>, NoneText, "Urgent", None),
      IssueCall(1, 1, <<"t">>, NoneText, "High", today + 1),
      IssueCall(1, 1, <<"t">>, NoneText, "High", today - 3651),
      IssueCall(5, 1, <<"t">>, NoneText, "High", None),
      IssueCall(1, 2, <<"t">>, NoneText, "High", None) }

UpdateCall(issue_id, status, assigned_repair_date, resolution_date, resolution_notes) ==
    [ issue_id |-> issue_id, status |-> status,
      assigned_repair_date |-> assigned_repair_date,
      resolution_date |-> resolution_date, resolution_notes |-> resolution_notes ]

StatusInputs ==
    { NoneStr, "", "Open", "In Progress", "Resolved", "Closed", "Reopened" }

\* Every status with and without a repair date of day 1 and a resolution date
\* of day 0, then one call for each remaining check.
UpdateArgs ==
    { UpdateCall(i, st, rep, res, NoneText) :
      i \in 1 .. MaxIssues, st \in StatusInputs, rep \in {None, 1}, res \in {None, 0} }
    \cup
    { UpdateCall(0, "Open", None, None, NoneText),
      UpdateCall(MaxIssues + 1, "Open", None, None, NoneText),
      UpdateCall(1, NoneStr, 0 - 5, None, NoneText),
      UpdateCall(1, NoneStr, today + 365, None, NoneText),
      UpdateCall(1, NoneStr, None, 0 - 5, NoneText),
      UpdateCall(1, NoneStr, None, today + 1, NoneText),
      UpdateCall(1, NoneStr, None, None, TextOfLen(1001)) }

InitMaint ==
    /\ today = 0
    /\ members = SeedMembers
    /\ sessionMembers = SeedMembers
    /\ sessions = << >>
    /\ healthMetrics = << >>
    /\ fitnessGoals = << >>
    /\ issues = << >>
    /\ invoices = << >>
    /\ last = NoCall
    /\ inflight = NoCalls

LogIssue == \E a \in LogIssueArgs : log_maintenance_issue(a)

UpdateIssue == \E a \in UpdateArgs : update_maintenance_status(a)

NextMaint == LogIssue \/ UpdateIssue \/ NextDay

SpecMaint == InitMaint /\ [][NextMaint]_vars

\* The order Open < In Progress < Resolved < Closed.
StatusRank(status) ==
    IF status = "Open" THEN 1
    ELSE IF status = "In Progress" THEN 2
    ELSE IF status = "Resolved" THEN 3
    ELSE 4

IsClosed(a) == a.issue_id \in DOMAIN issues /\ issues[a.issue_id].Status = "Closed"

IsResolved(a) == a.issue_id \in DOMAIN issues /\ issues[a.issue_id].Status = "Resolved"

\* C7, for every target status: once an issue is Closed, every
\* update_maintenance_status call that supplies a status (Open, In Progress,
\* Resolved or Closed) is rejected.
C7_ClosedRejectsEveryStatus ==
    \A a \in UpdateArgs :
        (IsClosed(a) /\ a.status \in {"Open", "In Progress", "Resolved", "Closed"})
        => UpdateIssueOutcome(a) # OK

C7_ClosedRejectsOthers ==
    \A a \in UpdateArgs :
        (IsClosed(a) /\ a.status \in {"Open", "In Progress", "Resolved"})
        => UpdateIssueOutcome(a) = "Cannot change status of a closed issue."

C7_StaysClosed ==
    \A i \in DOMAIN issues :
        issues[i].Status = "Closed" => issues'[i].Status = "Closed"

\* C7, for the other three statuses: once an issue is Closed, every update_maintenance_status call
\* with the status Open, In Progress or Resolved is rejected, and the issue's
\* Status stays Closed in every later state (a call with the status Closed is
\* not a change of status and may be accepted).
C7_ClosedIsFinal == []C7_ClosedRejectsOthers /\ [][C7_StaysClosed]_vars

\* A call on a closed issue was rejected as a change of a closed issue.
C7_Witness ==
    /\ last.op = "update_maintenance_status"
    /\ last.outcome = "Cannot change status of a closed issue."
    /\ \E i \in DOMAIN issues : issues[i].Status = "Closed"

\* C8: no successful update_maintenance_status call changes an issue's Status to
\* a strictly earlier value in the order Open < In Progress < Resolved < Closed.
C8_ForwardOnly ==
    [][ \A i \in DOMAIN issues :
          StatusRank(issues'[i].Status) >= StatusRank(issues[i].Status) ]_vars

C9_ResolvedRejectsReopen ==
    \A a \in UpdateArgs :
        (IsResolved(a) /\ a.status \in {"Open", "In Progress"})
        => UpdateIssueOutcome(a) = "Resolved issues can only be closed."

C9_ResolvedOrClosed ==
    \A i \in DOMAIN issues :
        issues[i].Status = "Resolved" => issues'[i].Status \in {"Resolved", "Closed"}

C9_RejectedUnchanged ==
    (last'.op = "update_maintenance_status" /\ last'.outcome # OK) => issues' = issues

\* C9: once an issue is Resolved, a call with the status Open or In Progress is
\* rejected and leaves the issue unchanged; from Resolved the Status only stays
\* Resolved or becomes Closed.
C9_ResolvedOnlyCloses ==
    /\ []C9_ResolvedRejectsReopen
    /\ [][C9_ResolvedOrClosed /\ C9_RejectedUnchanged]_vars

\* A call on a resolved issue was rejected as a reopening.
C9_Witness ==
    /\ last.op = "update_maintenance_status"
    /\ last.outcome = "Resolved issues can only be closed."
    /\ \E i \in DOMAIN issues : issues[i].Status = "Resolved"

----------------------------------------------------------------------------
(* Billing, over the seeded members. *)

InvoiceCall(payer_id, invoice_number, invoice_date, due_date, amount, service_description, session_id, payment_method) ==
    [ payer_id |-> payer_id, invoice_number |-> invoice_number,
      invoice_date |-> invoice_date, due_date |-> due_date, amount |-> amount,
      service_description |-> service_description, session_id |-> session_id,
      payment_method |-> payment_method ]

Number1 == << "n", "1" >>
Number2 == << "n", "2" >>

CreateInvoiceValidArgs ==
    { InvoiceCall(1, n, 0, due, 12344, <<"s">>, None, NoneText) :
      n \in { Number1, Number2, <<" ">> \o Number1 }, due \in {0, 30} }

\* One call for each check that can reject.
CreateInvoiceBadArgs ==
    { InvoiceCall(0, Number1, 0, 30, 12344, <<"s">>, None, NoneText),
      InvoiceCall(1, <<" ">>, 0, 30, 12344, <<"s">>, None, NoneText),
      InvoiceCall(1, TextOfLen(51), 0, 30, 12344, <<"s">>, None, NoneText),
      InvoiceCall(1, Number1, 0, 30, 12344, NoneText, None, NoneText),
      InvoiceCall(1, Number1, 0, 30, 12344, TextOfLen(501), None, NoneText),
      InvoiceCall(1, Number1, 0, 30, 12344, <<"s">>, 0, NoneText),
      InvoiceCall(1, Number1, today + 1, today + 30, 12344, <<"s">>, None, NoneText),
      InvoiceCall(1, Number1, 0 - 3651, 0 - 3650, 12344, <<"s">>, None, NoneText),
      InvoiceCall(1, Number1, 0, 0 - 1, 12344, <<"s">>, None, NoneText),
      InvoiceCall(1, Number1, 0, 366, 12344, <<"s">>, None, NoneText),
      InvoiceCall(1, Number1, 0, 30, 0, <<"s">>, None, NoneText),
      InvoiceCall(1, Number1, 0, 30, 1000000001, <<"s">>, None, NoneText),
      InvoiceCall(1, Number1, 0, 30, 12344, <<"s">>, None, TextOfLen(51)),
      InvoiceCall(3, Number1, 0, 30, 12344, <<"s">>, None, NoneText),
      InvoiceCall(1, Number1, 0, 30, 12344, <<"s">>, 1, NoneText),
      InvoiceCall(1, TextOfLen(21), 0, 30, 12344, <<"s">>, None, NoneText) }

CreateInvoiceArgs == CreateInvoiceValidArgs \cup CreateInvoiceBadArgs

PaymentMethods ==
    { <<"c">>, <<" ", "k">>, <<" ">>, NoneText, TextOfLen(31), TextOfLen(51) }

PaidDates == { None, 0, today + 1, 0 - 5 }

InitInv ==
    /\ today = 0
    /\ members = SeedMembers
    /\ sessionMembers = SeedMembers
    /\ sessions = << >>
    /\ healthMetrics = << >>
    /\ fitnessGoals = << >>
    /\ issues = << >>
    /\ invoices = << >>
    /\ last = NoCall
    /\ inflight = NoCalls

CreateInvoice == \E a \in CreateInvoiceArgs : create_invoice(a)

RecordPayment ==
    \E invoice_id \in 0 .. MaxInvoices + 1, payment_method \in PaymentMethods,
       paid_date \in PaidDates :
        record_payment(invoice_id, payment_method, paid_date)

NextInv == CreateInvoice \/ RecordPayment \/ NextDay

SpecInv == InitInv /\ [][NextInv]_vars

C10_PaidRejects ==
    \A i \in DOMAIN invoices : \A pm \in PaymentMethods : \A pd \in PaidDates :
        invoices[i].PaymentStatus = "Paid" => RecordPaymentOutcome(i, pm, pd) # OK

C10_FirstPaymentPays ==
    (last.op = "record_payment" /\ last.outcome = OK)
    => /\ last.id \in DOMAIN invoices
       /\ invoices[last.id].PaymentStatus = "Paid"
       /\ invoices[last.id].PaidDate # None

C10_PaidIsFrozen ==
    /\ \A i \in DOMAIN invoices :
          invoices[i].PaymentStatus = "Paid" => invoices'[i] = invoices[i]
    /\ \A i \in DOMAIN invoices' :
          i \notin DOMAIN invoices => invoices'[i].PaymentStatus = "Pending"
    /\ (last'.op = "record_payment" /\ last'.outcome # OK) => invoices' = invoices

\* C10: every invoice is created Pending; the first valid record_payment sets
\* PaymentStatus to Paid; every later record_payment on that invoice fails and
\* leaves PaymentStatus, PaymentMethod and PaidDate as they are; no operation
\* moves an invoice from Paid back to Pending.
C10_OneShotPayment ==
    [](C10_PaidRejects /\ C10_FirstPaymentPays) /\ [][C10_PaidIsFrozen]_vars

\* A second payment on a paid invoice was refused.
C10_Witness ==
    /\ last.op = "record_payment"
    /\ last.outcome = "Invoice is already marked as paid."
    /\ \E i \in DOMAIN invoices : invoices[i].PaymentStatus = "Paid"

----------------------------------------------------------------------------
(* Every operation, from a store with one seeded member, on a few calls each. *)

MetricCall(member_id, recorded_date, height, weight, body_fat_percentage, resting_heart_rate, notes) ==
    [ member_id |-> member_id, recorded_date |-> recorded_date, height |-> height,
      weight |-> weight, body_fat_percentage |-> body_fat_percentage,
      resting_heart_rate |-> resting_heart_rate, notes |-> notes ]

\* A weight of 70.00 on day 0 for each member, then one call for each check
\* that can reject.
MetricArgs ==
    { MetricCall(m, 0, None, 7000, None, None, NoneText) : m \in {1, 2} }
    \cup
    { MetricCall(0, 0, None, 7000, None, None, NoneText),
      MetricCall(1, today + 1, None, 7000, None, None, NoneText),
      MetricCall(1, 0 - 36501, None, 7000, None, None, NoneText),
      MetricCall(1, 0, None, None, None, None, <<"n">>),
      MetricCall(1, 0, 0, None, None, None, NoneText),
      MetricCall(1, 0, 30001, None, None, None, NoneText),
      MetricCall(1, 0, None, 0, None, None, NoneText),
      MetricCall(1, 0, None, 100001, None, None, NoneText),
      MetricCall(1, 0, None, None, 10001, None, NoneText),
      MetricCall(1, 0, None, None, None, 0, NoneText),
      MetricCall(1, 0, None, None, None, 29, NoneText),
      MetricCall(1, 0, None, 100000, None, None, NoneText),
      MetricCall(3, 0, None, 7000, None, None, NoneText) }

Init ==
    /\ today = 0
    /\ members = SubSeq(SeedMembers, 1, 1)
    /\ sessionMembers = SubSeq(SeedMembers, 1, 1)
    /\ sessions = << >>
    /\ healthMetrics = << >>
    /\ fitnessGoals = << >>
    /\ issues = << >>
    /\ invoices = << >>
    /\ last = NoCall
    /\ inflight = NoCalls

RegisterOne ==
    \E e \in { EmailA, EmailAUpper } :
        register_member(RegCall(<<"k">>, <<"d">>, e, None, NoneText, NoneText,
                                NoneText, "Active"))

LogHealthMetric == \E a \in MetricArgs : log_health_metric(a)

ScheduleOne ==
    schedule_pt_session(SchedCall(1, 1, None, 0, 600, 660, PERSONAL_TRAINING, None, None))

AssignOne == assign_room_booking(1, 1)

LogIssueOne == log_maintenance_issue(IssueCall(1, 1, <<"t">>, NoneText, "High", None))

UpdateIssueOne ==
    \E st \in { "Closed", "Open" } :
        update_maintenance_status(UpdateCall(1, st, None, None, NoneText))

CreateInvoiceOne ==
    create_invoice(InvoiceCall(1, Number1, 0, 30, 12344, <<"s">>, None, NoneText))

RecordPaymentOne == record_payment(1, <<"c">>, None)

Next ==
    \/ RegisterOne
    \/ LogHealthMetric
    \/ ScheduleOne
    \/ AssignOne
    \/ LogIssueOne
    \/ UpdateIssueOne
    \/ CreateInvoiceOne
    \/ RecordPaymentOne
    \/ NextDay

Spec == Init /\ [][Next]_vars

\* The number of HealthMetric rows of a member.
MetricCount(rows, member_id) ==
    Cardinality({ i \in DOMAIN rows : rows[i].MemberID = member_id })

C6_RowsKept ==
    /\ \A i \in DOMAIN healthMetrics :
          i \in DOMAIN healthMetrics' /\ healthMetrics'[i] = healthMetrics[i]
    /\ Len(healthMetrics') <= Len(healthMetrics) + 1
    /\ last'.op # "log_health_metric" => healthMetrics' = healthMetrics

C6_CallAppends ==
    \A a \in MetricArgs :
        MetricOutcome(a) = OK =>
            /\ Len(MetricRows(a)) = Len(healthMetrics) + 1
            /\ SubSeq(MetricRows(a), 1, Len(healthMetrics)) = healthMetrics
            /\ \A m \in 1 .. MaxMembers + 1 :
                  MetricCount(MetricRows(a), m) =
                      MetricCount(healthMetrics, m) + (IF m = a.member_id THEN 1 ELSE 0)

C6_OneRowPerCall ==
    /\ (last'.op = "log_health_metric" /\ last'.outcome = OK /\ last' # last)
       => Len(healthMetrics') = Len(healthMetrics) + 1
    /\ (last'.op = "log_health_metric" /\ last'.outcome # OK)
       => healthMetrics' = healthMetrics

\* C6: log_health_metric only appends: a successful call adds exactly one
\* HealthMetric row, of its member, and leaves every stored row unchanged, a
\* failed call adds none, and no other operation changes the HealthMetric rows.
C6_AppendOnly == []C6_CallAppends /\ [][C6_RowsKept /\ C6_OneRowPerCall]_vars

\* Two calls for one member and date each added a row.
C6_Witness ==
    /\ last.op = "log_health_metric"
    /\ last.outcome = OK
    /\ \E i, j \in DOMAIN healthMetrics :
          /\ i # j
          /\ healthMetrics[i].MemberID = healthMetrics[j].MemberID
          /\ healthMetrics[i].RecordedDate = healthMetrics[j].RecordedDate

----------------------------------------------------------------------------
(* Profile updates on one db handle, as src/cli.py main() opens it, next to    *)
(* calls that commit, from a store with one seeded member.                     *)

ProfileCall(member_id, first_name, last_name, phone, address, date_of_birth, gender) ==
    [ member_id |-> member_id, first_name |-> first_name, last_name |-> last_name,
      phone |-> phone, address |-> address, date_of_birth |-> date_of_birth,
      gender |-> gender ]

\* Calls that succeed, calls that assign a field and then reject a later one,
\* then one call for each remaining check.
ProfileArgs ==
    { ProfileCall(1, <<" ", "n">>, NoneText, NoneText, NoneText, None, NoneText),
      ProfileCall(1, NoneText, NoneText, <<"5">>, << >>, None, NoneText),
      ProfileCall(1, NoneText, NoneText, NoneText, NoneText, AdultBirth, <<"f">>),
      ProfileCall(1, <<"n">>, <<" ">>, NoneText, NoneText, None, NoneText),
      ProfileCall(1, NoneText, <<"q">>, NoneText, NoneText, today + 1, NoneText),
      ProfileCall(2, NoneText, NoneText, <<"6">>, NoneText, None, <<"x">>),
      ProfileCall(0, <<"n">>, NoneText, NoneText, NoneText, None, NoneText),
      ProfileCall(1, NoneText, NoneText, NoneText, NoneText, None, NoneText),
      ProfileCall(3, <<"n">>, NoneText, NoneText, NoneText, None, NoneText),
      ProfileCall(1, <<" ">>, NoneText, NoneText, NoneText, None, NoneText),
      ProfileCall(1, TextOfLen(51), NoneText, NoneText, NoneText, None, NoneText),
      ProfileCall(1, NoneText, TextOfLen(51), NoneText, NoneText, None, NoneText),
      ProfileCall(1, NoneText, NoneText, TextOfLen(21), NoneText, None, NoneText),
      ProfileCall(1, NoneText, NoneText, NoneText, TextOfLen(201), None, NoneText),
      ProfileCall(1, NoneText, NoneText, NoneText, NoneText, today - 100, NoneText),
      ProfileCall(1, NoneText, NoneText, NoneText, NoneText, 0 - 50000, NoneText) }

ProfileMetricArgs ==
    { MetricCall(1, 0, None, 7000, None, None, NoneText),
      MetricCall(1, 0, None, 100000, None, None, NoneText),
      MetricCall(1, 0, None, 0, None, None, NoneText) }

InitProfile ==
    /\ today = 0
    /\ members = SubSeq(SeedMembers, 1, 1)
    /\ sessionMembers = SubSeq(SeedMembers, 1, 1)
    /\ sessions = << >>
    /\ healthMetrics = << >>
    /\ fitnessGoals = << >>
    /\ issues = << >>
    /\ invoices = << >>
    /\ last = NoCall
    /\ inflight = NoCalls

UpdateProfile == \E a \in ProfileArgs : update_profile(a)

ProfileLogMetric == \E a \in ProfileMetricArgs : log_health_metric(a)

ProfileRegister ==
    register_member(RegCall(<<"k">>, <<"d">>, EmailB, None, NoneText, NoneText,
                            NoneText, "Active"))

NextProfile == UpdateProfile \/ ProfileLogMetric \/ ProfileRegister \/ NextDay

SpecProfile == InitProfile /\ [][NextProfile]_vars

\* The stored Member rows change in a step.
MembersChanged == members' # members

\* The step is a successful update_profile that stores what its arguments say.
ProfileStored ==
    /\ last'.op = "update_profile"
    /\ last'.outcome = OK
    /\ \E a \in ProfileArgs :
          /\ a.member_id \in DOMAIN members
          /\ ProfileResult(members[a.member_id], a).outcome = OK
          /\ members' = [members EXCEPT ![a.member_id] = ProfileResult(@, a).row]

\* The step is a successful register_member that adds one row.
MemberAdded ==
    /\ last'.op = "register_member"
    /\ last'.outcome = OK
    /\ SubSeq(members', 1, Len(members)) = members

\* C11: a failed operation performs no partial mutation: the stored Member rows
\* change only by a successful register_member, which adds a row, or by a
\* successful update_profile, which stores the fields of that call; a value
\* that a rejected update_profile had assigned is never stored, neither by
\* that call nor by the commit of a later call on the same db handle.
C11_NoPartialMutation == [][MembersChanged => (ProfileStored \/ MemberAdded)]_vars

----------------------------------------------------------------------------
(* Group classes in rooms of every capacity, with and without an explicit      *)
(* duration_minutes.                                                           *)

\* Each seeded member with a trainer of their own, at 10:00-11:00 on day 0.
ClassArgs ==
    { SchedCall(m, m, r, 0, 600, 660, GROUP_CLASS, d, c) :
      m \in {1, 2}, r \in {None, 1, 3, 4}, d \in {None, 45}, c \in {5, 15} }
    \cup
    { SchedCall(1, 1, None, 0, 600, 660, PERSONAL_TRAINING, d, None) : d \in {None, 45} }
    \cup
    { SchedCall(1, 1, 1, 0, 600, 660, GROUP_CLASS, None, None),
      SchedCall(1, 1, 1, 0, 600, 660, GROUP_CLASS, None, 101) }

InitRooms ==
    /\ today = 0
    /\ members = SeedMembers
    /\ sessionMembers = SeedMembers
    /\ sessions = << >>
    /\ healthMetrics = << >>
    /\ fitnessGoals = << >>
    /\ issues = << >>
    /\ invoices = << >>
    /\ last = NoCall
    /\ inflight = NoCalls

ScheduleClass == \E a \in ClassArgs : schedule_pt_session(a)

AssignClassRoom ==
    \E session_id \in 1 .. MaxSessions, room_id \in {1, 3, 4} :
        assign_room_booking(session_id, room_id)

NextRooms == ScheduleClass \/ AssignClassRoom \/ NextDay

SpecRooms == InitRooms /\ [][NextRooms]_vars

\* C12: every stored Group Class session that has a room has a MaxCapacity of at
\* most the RoomCapacity of that room, for every room that has a capacity (a
\* capacity of 0 included), however the room was attached.
C12_ClassFitsRoom ==
    \A i \in DOMAIN sessions :
        ( /\ sessions[i].SessionType = GROUP_CLASS
          /\ sessions[i].RoomID # None
          /\ RoomCapacity(sessions[i].RoomID) # None )
        => sessions[i].MaxCapacity <= RoomCapacity(sessions[i].RoomID)

\* C13: every stored session has DurationMinutes equal to EndTime minus
\* StartTime in minutes, also when the call passed a duration_minutes.
C13_DurationDerived ==
    \A i \in DOMAIN sessions :
        sessions[i].DurationMinutes = sessions[i].EndTime - sessions[i].StartTime

----------------------------------------------------------------------------
(* Claims about the dates of maintenance issues, under SpecMaint. *)

\* C14: every issue whose AssignedRepairDate and ResolutionDate are both set has
\* ResolutionDate >= AssignedRepairDate, also when two calls set them.
C14_ResolutionAfterRepair ==
    \A i \in DOMAIN issues :
        (issues[i].AssignedRepairDate # None /\ issues[i].ResolutionDate # None)
        => issues[i].ResolutionDate >= issues[i].AssignedRepairDate

C15_ResolvedWithinDates ==
    \A i \in DOMAIN issues :
        issues[i].ResolutionDate # None
        => /\ issues[i].Status \in {"Resolved", "Closed"}
           /\ issues[i].ResolutionDate >= issues[i].ReportedDate
           /\ issues[i].ResolutionDate <= today

C15_NotAfterSetting ==
    \A i \in DOMAIN issues :
        issues'[i].ResolutionDate # issues[i].ResolutionDate
        => issues'[i].ResolutionDate <= today

\* C15: an issue with a ResolutionDate has Status Resolved or Closed, and its
\* ResolutionDate is >= its ReportedDate and <= the date on which it was set.
C15_ResolutionDateSound == []C15_ResolvedWithinDates /\ [][C15_NotAfterSetting]_vars

\* A resolution date was set on a resolved issue, a day after it was reported.
C15_Witness ==
    /\ last.op = "update_maintenance_status"
    /\ last.outcome = OK
    /\ \E i \in DOMAIN issues :
          /\ issues[i].ResolutionDate # None
          /\ issues[i].Status = "Resolved"
          /\ today > issues[i].ReportedDate

----------------------------------------------------------------------------
(* Fitness goals, over the seeded members. *)

GoalCall(member_id, goal_type, target_body_weight, target_body_fat, target_date, goal_status, notes) ==
    [ member_id |-> member_id, goal_type |-> goal_type,
      target_body_weight |-> target_body_weight, target_body_fat |-> target_body_fat,
      target_date |-> target_date, goal_status |-> goal_status, notes |-> notes ]

\* Target weights of none, 70.00, -5.00, 0, 1000.01 and 1000.00 with target body
\* fats of none, 20.00, -0.01 and 100.01, for a seeded member and for a member
\* that does not exist, then one call for each remaining check.
GoalArgs ==
    { GoalCall(m, <<"w">>, w, f, None, "Active", NoneText) :
      m \in {1, 3},
      w \in {None, 7000, 0 - 500, 0, 100001, 100000},
      f \in {None, 2000, 0 - 1, 10001} }
    \cup
    { GoalCall(0, <<"w">>, 0 - 500, None, None, "Active", NoneText),
      GoalCall(0, <<"w">>, 7000, None, None, "Active", NoneText),
      GoalCall(1, <<" ">>, 7000, None, None, "Active", NoneText),
      GoalCall(1, TextOfLen(51), 7000, None, None, "Active", NoneText),
      GoalCall(1, <<"w">>, 7000, None, today - 1, "Active", NoneText),
      GoalCall(1, <<"w">>, 7000, None, today + 3651, "Active", NoneText),
      GoalCall(1, <<"w">>, 7000, None, today + 30, "Paused", NoneText),
      GoalCall(1, <<"w">>, 7000, None, today + 30, "On Hold", <<" ", "n">>) }

InitGoals ==
    /\ today = 0
    /\ members = SeedMembers
    /\ sessionMembers = SeedMembers
    /\ sessions = << >>
    /\ healthMetrics = << >>
    /\ fitnessGoals = << >>
    /\ issues = << >>
    /\ invoices = << >>
    /\ last = NoCall
    /\ inflight = NoCalls

AddFitnessGoal == \E a \in GoalArgs : add_fitness_goal(a)

NextGoals == AddFitnessGoal \/ NextDay

SpecGoals == InitGoals /\ [][NextGoals]_vars

\* A target weight that is <= 0 or > 1000, or a target body fat outside [0, 100].
BadTarget(a) ==
    \/ a.target_body_weight # None
       /\ (a.target_body_weight <= 0 \/ a.target_body_weight > 100000)
    \/ a.target_body_fat # None
       /\ (a.target_body_fat < 0 \/ a.target_body_fat > 10000)

C16_BadTargetRejected ==
    \A a \in GoalArgs :
        BadTarget(a) => (GoalOutcome(a) # OK /\ GoalValidation(a) # OK)

C16_NoStoreAccess ==
    (last'.op = "add_fitness_goal" /\ ~last'.queried)
    => /\ last'.outcome # OK
       /\ UNCHANGED <<members, sessionMembers, sessions, healthMetrics, fitnessGoals,
                      issues, invoices>>

\* C16: add_fitness_goal with a target weight that is <= 0 or > 1000, or a target
\* body fat outside [0, 100], fails with a ValueError of the argument checks:
\* no query is issued, no FitnessGoal row is inserted and the store is unchanged.
C16_BadTargetNoAccess == []C16_BadTargetRejected /\ [][C16_NoStoreAccess]_vars

\* A call with a target weight of -5 was rejected without a query, in a store
\* that holds a goal.
C16_Witness ==
    /\ last.op = "add_fitness_goal"
    /\ last.outcome = "Target body weight must be positive."
    /\ ~last.queried
    /\ Len(fitnessGoals) > 0

C17_MissingTargetFirst ==
    \A a \in GoalArgs :
        ( /\ GoalValidation(a) = OK
          /\ a.target_body_weight = None /\ a.target_body_fat = None )
        => GoalOutcome(a) =
             "At least one target (body weight or body fat percentage) must be specified."

C17_MissingTargetNoQuery ==
    ( /\ last'.op = "add_fitness_goal"
      /\ last'.outcome =
           "At least one target (body weight or body fat percentage) must be specified." )
    => ~last'.queried

\* C17: add_fitness_goal with both targets absent is rejected with the
\* missing-target error without any store query, so that with a member_id that
\* does not resolve the caller sees the missing-target error and not Not Found.
C17_MissingTargetBeforeLookup ==
    []C17_MissingTargetFirst /\ [][C17_MissingTargetNoQuery]_vars

----------------------------------------------------------------------------
(* Every operation that takes an identifier, called on day 0 with identifiers
   -1, 0 and 1 and with other arguments that pass and that fail the argument
   checks. *)

Ids == { 0 - 1, 0, 1 }

\* Every member and trainer id without a room and with room 0 on date 0, then
\* room -1, and an id of 0 with a date in the past.
IdSchedArgs ==
    { SchedCall(m, t, r, 0, 600, 660, PERSONAL_TRAINING, None, None) :
      m \in Ids, t \in Ids, r \in { None, 0 } }
    \cup
    { SchedCall(1, 1, 0 - 1, 0, 600, 660, PERSONAL_TRAINING, None, None),
      SchedCall(0, 1, None, 0 - 1, 600, 660, PERSONAL_TRAINING, None, None) }

IdProfileArgs ==
    { ProfileCall(m, <<"k">>, NoneText, NoneText, NoneText, None, NoneText) : m \in Ids }
    \cup
    { ProfileCall(0, <<" ">>, NoneText, NoneText, NoneText, None, NoneText) }

IdGoalArgs ==
    { GoalCall(m, <<"w">>, 7000, None, None, "Active", NoneText) : m \in Ids }
    \cup
    { GoalCall(0, <<"w">>, 0 - 500, None, None, "Active", NoneText) }

IdMetricArgs ==
    { MetricCall(m, 0, None, 7000, None, None, NoneText) : m \in Ids }
    \cup
    { MetricCall(0, 0, None, 0, None, None, NoneText) }

IdIssueArgs ==
    { IssueCall(r, ad, <<"t">>, NoneText, "High", None) : r \in Ids, ad \in Ids }
    \cup
    { IssueCall(0, 1, <<"t">>, NoneText, "Urgent", None),
      IssueCall(1, 0, <<"t">>, NoneText, "Urgent", None) }

IdUpdateArgs ==
    { UpdateCall(i, "In Progress", None, None, NoneText) : i \in Ids }
    \cup
    { UpdateCall(0, "Reopened", None, None, NoneText) }

IdInvoiceArgs ==
    { InvoiceCall(p, Number1, 0, 30, 12344, <<"s">>, s, NoneText) :
      p \in Ids, s \in { None, 0 } }
    \cup
    { InvoiceCall(1, Number1, 0, 30, 12344, <<"s">>, 0 - 1, NoneText),
      InvoiceCall(0, Number1, 0, 30, 0, <<"s">>, None, NoneText),
      InvoiceCall(1, Number1, 0, 30, 0, <<"s">>, 0, NoneText) }

IdPaymentMethods == { <<"c">>, <<" ">> }

IdDates == { 0, 0 - 1 }

InitIds ==
    /\ today = 0
    /\ members = SubSeq(SeedMembers, 1, 1)
    /\ sessionMembers = SubSeq(SeedMembers, 1, 1)
    /\ sessions = << >>
    /\ healthMetrics = << >>
    /\ fitnessGoals = << >>
    /\ issues = << >>
    /\ invoices = << >>
    /\ last = NoCall
    /\ inflight = NoCalls

IdSchedule == \E a \in IdSchedArgs : schedule_pt_session(a)

IdAssignRoom == \E s \in Ids, r \in Ids : assign_room_booking(s, r)

IdUpdateProfile == \E a \in IdProfileArgs : update_profile(a)

IdAddGoal == \E a \in IdGoalArgs : add_fitness_goal(a)

IdLogMetric == \E a \in IdMetricArgs : log_health_metric(a)

IdLogIssue == \E a \in IdIssueArgs : log_maintenance_issue(a)

IdUpdateIssue == \E a \in IdUpdateArgs : update_maintenance_status(a)

IdCreateInvoice == \E a \in IdInvoiceArgs : create_invoice(a)

IdRecordPayment ==
    \E i \in Ids, pm \in IdPaymentMethods : record_payment(i, pm, None)

IdSetAvailability == \E t \in Ids, d \in IdDates : set_availability(t, d, 600, 660)

IdViewSchedule == \E t \in Ids, d \in { None, 0 } : view_schedule(t, d)

NextIds ==
    \/ IdSchedule
    \/ IdAssignRoom
    \/ IdUpdateProfile
    \/ IdAddGoal
    \/ IdLogMetric
    \/ IdLogIssue
    \/ IdUpdateIssue
    \/ IdCreateInvoice
    \/ IdRecordPayment
    \/ IdSetAvailability
    \/ IdViewSchedule

SpecIds == InitIds /\ [][NextIds]_vars

\* An identifier argument that is not positive; None stands for an optional
\* identifier that was not given.
BadId(id) == id # None /\ id <= 0

C18_BadIdFailsChecks ==
    /\ \A a \in IdSchedArgs :
          (BadId(a.member_id) \/ BadId(a.trainer_id) \/ BadId(a.room_id))
          => (ScheduleValidation(a) # OK /\ ScheduleOutcome(a) # OK)
    /\ \A s \in Ids, r \in Ids :
          (BadId(s) \/ BadId(r))
          => (AssignRoomValidation(s, r) # OK /\ AssignRoomOutcome(s, r) # OK)
    /\ \A a \in IdProfileArgs :
          BadId(a.member_id)
          => (UpdateProfileValidation(a) # OK /\ UpdateProfileOutcome(a) # OK)
    /\ \A a \in IdGoalArgs :
          BadId(a.member_id) => (GoalValidation(a) # OK /\ GoalOutcome(a) # OK)
    /\ \A a \in IdMetricArgs :
          BadId(a.member_id) => (MetricValidation(a) # OK /\ MetricOutcome(a) # OK)
    /\ \A a \in IdIssueArgs :
          (BadId(a.room_id) \/ BadId(a.admin_id))
          => (LogIssueValidation(a) # OK /\ LogIssueOutcome(a) # OK)
    /\ \A a \in IdUpdateArgs :
          BadId(a.issue_id)
          => (UpdateIssueValidation(a) # OK /\ UpdateIssueOutcome(a) # OK)
    /\ \A a \in IdInvoiceArgs :
          (BadId(a.payer_id) \/ BadId(a.session_id))
          => (CreateInvoiceValidation(a) # OK /\ CreateInvoiceOutcome(a) # OK)
    /\ \A i \in Ids, pm \in IdPaymentMethods :
          BadId(i)
          => /\ RecordPaymentValidation(i, pm, None) # OK
             /\ RecordPaymentOutcome(i, pm, None) # OK
    /\ \A t \in Ids, d \in IdDates :
          BadId(t)
          => /\ SetAvailabilityValidation(t, d, 600, 660) # OK
             /\ SetAvailabilityOutcome(t, d, 600, 660) # OK
    /\ \A t \in Ids, d \in { None, 0 } :
          BadId(t)
          => (ViewScheduleValidation(t, d) # OK /\ ViewScheduleOutcome(t, d) # OK)

\* A call that fails an argument check issues no query and changes no table.
C18_NoQueryNoChange ==
    (last' # last /\ ~last'.queried)
    => /\ last'.outcome # OK
       /\ UNCHANGED <<members, sessionMembers, sessions, healthMetrics, fitnessGoals,
                      issues, invoices>>

\* C18: in every operation that takes an identifier, an identifier that is not
\* positive fails the argument checks, whatever the other arguments are: the
\* call raises ValueError before its first query and the store is unchanged.
C18_BadIdBeforeLookup == []C18_BadIdFailsChecks /\ [][C18_NoQueryNoChange]_vars

\* assign_room_booking was rejected for room 0 without a query, in a store that
\* holds the session it named.
C18_Witness ==
    /\ last.op = "assign_room_booking"
    /\ last.outcome = "Room ID must be a positive integer."
    /\ ~last.queried
    /\ Len(sessions) > 0

----------------------------------------------------------------------------
(* The trainer's operations, next to the scheduling of sessions and a profile
   update that fails after its first assignment. *)

AvailTrainers == { 0, 1, 2, 3 }
AvailDates == { 0 - 1, 0, 1 }
AvailIntervals == { <<600, 660>>, <<630, 690>>, <<660, 600>>, <<600, 610>> }

TrainerSchedCall(m, t, d, iv) ==
    SchedCall(m, t, None, d, iv[1], iv[2], PERSONAL_TRAINING, None, None)

TrainerSchedArgs ==
    { TrainerSchedCall(m, t, d, iv) :
      m \in {1, 2}, t \in {1}, d \in {0, 1}, iv \in { <<600, 660>>, <<630, 690>> } }

ViewDates == { None, 0, 1, Date1900 - 1, 3652 }

SearchTerms ==
    { NoneText, << >>, <<" ">>, TextOfLen(101), <<"j">>, <<"d">>, <<"z">>,
      <<" ", "k", " ", "d", " ">> }

InitTrainer ==
    /\ today = 0
    /\ members = SeedMembers
    /\ sessionMembers = SeedMembers
    /\ sessions = << >>
    /\ healthMetrics = << >>
    /\ fitnessGoals = << >>
    /\ issues = << >>
    /\ invoices = << >>
    /\ last = NoCall
    /\ inflight = NoCalls

TrainerSchedule == \E a \in TrainerSchedArgs : schedule_pt_session(a)

TrainerProfile ==
    update_profile(ProfileCall(1, <<"n">>, <<" ">>, NoneText, NoneText, None, NoneText))

SetAvailability ==
    \E t \in AvailTrainers, d \in AvailDates, iv \in AvailIntervals :
        set_availability(t, d, iv[1], iv[2])

ViewSchedule == \E t \in AvailTrainers, d \in ViewDates : view_schedule(t, d)

LookupMember == \E s \in SearchTerms : lookup_member(s)

NextTrainer ==
    \/ TrainerSchedule
    \/ TrainerProfile
    \/ SetAvailability
    \/ ViewSchedule
    \/ LookupMember
    \/ NextDay

SpecTrainer == InitTrainer /\ [][NextTrainer]_vars

\* After a call of a trainer's operation every table, and the session's pending
\* state, is as it was before the call.
C19_TablesUnchanged ==
    last'.op \in { "set_availability", "view_schedule", "lookup_member" }
    => UNCHANGED <<members, sessionMembers, sessions, healthMetrics, fitnessGoals, issues,
                   invoices>>

\* After set_availability confirmed a slot, the same call is confirmed again and
\* schedule_pt_session for that trainer, date and interval has the outcome it
\* had before.
C19_SlotNotBlocked ==
    (last'.op = "set_availability" /\ last'.outcome = OK)
    =>
    \A t \in AvailTrainers, d \in AvailDates, iv \in AvailIntervals :
        set_availability(t, d, iv[1], iv[2])
        => /\ SetAvailabilityOutcome(t, d, iv[1], iv[2])' = OK
           /\ \A m \in {1, 2} :
                 /\ ScheduleOutcome(TrainerSchedCall(m, t, d, iv))'
                      = ScheduleOutcome(TrainerSchedCall(m, t, d, iv))
                 /\ ScheduleOutcome(TrainerSchedCall(m, t, d, iv))
                      # "Trainer has a conflicting session."

\* C19: set_availability, view_schedule and lookup_member leave every stored
\* record unchanged, whether they succeed or fail; set_availability creates no
\* session, so a slot it confirmed does not block a later schedule_pt_session
\* or set_availability call for the same trainer, date and interval.
C19_TrainerReadOnly == [][C19_TablesUnchanged /\ C19_SlotNotBlocked]_vars

\* set_availability confirmed a slot of a trainer on a date on which the trainer
\* has a session, while a profile change is pending in the session.
C19_Witness ==
    /\ last.op = "set_availability"
    /\ last.outcome = OK
    /\ \E i \in DOMAIN sessions : sessions[i].TrainerID = 1 /\ sessions[i].SessionDate = 0
    /\ SetAvailabilityOutcome(1, 0, 600, 610) # OK
    /\ sessionMembers # members

\* Whenever a session has a room, assigning that room to it again fails.
C20_SameRoomFails ==
    \A session_id \in DOMAIN sessions :
        sessions[session_id].RoomID # None
        => AssignRoomOutcome(session_id, sessions[session_id].RoomID) # OK

\* A call that names the session's current room leaves the sessions as they are.
C20_SessionKept ==
    \A session_id \in DOMAIN sessions :
        ( /\ sessions[session_id].RoomID # None
          /\ assign_room_booking(session_id, sessions[session_id].RoomID) )
        => /\ sessions' = sessions
           /\ last'.outcome # OK

\* C20: assign_room_booking called with the room that is already the session's
\* RoomID fails with an error and leaves the session unchanged, also when no
\* other session is in that room on that date.
C20_SameRoomRejected == []C20_SameRoomFails /\ [][C20_SessionKept]_vars

\* The call was rejected for a session that is today or later and is alone in
\* its room.
C20_Witness ==
    /\ last.op = "assign_room_booking"
    /\ last.outcome = "Room is already assigned to this session."
    /\ \E i \in DOMAIN sessions :
          /\ sessions[i].RoomID # None
          /\ sessions[i].SessionDate >= today
          /\ AssignRoomOutcome(i, sessions[i].RoomID)
               = "Room is already assigned to this session."
          /\ \A j \in DOMAIN sessions : j # i => sessions[j].RoomID # sessions[i].RoomID

----------------------------------------------------------------------------
(* Invoice numbers, under SpecInv. *)

C21_NumbersDiffer ==
    \A i \in DOMAIN invoices : \A j \in DOMAIN invoices :
        i # j => invoices[i].InvoiceNumber # invoices[j].InvoiceNumber

C21_DuplicateFails ==
    \A a \in CreateInvoiceArgs :
        (\E i \in DOMAIN invoices : invoices[i].InvoiceNumber = Strip(a.invoice_number))
        => CreateInvoiceOutcome(a) # OK

C21_NoRowOnFailure ==
    (last'.op = "create_invoice" /\ last'.outcome # OK) => invoices' = invoices

\* C21: no two invoices have the same stored InvoiceNumber; a create_invoice
\* whose trimmed invoice_number is the number of an existing invoice fails and
\* inserts no row, whether the lookup before the insert or the unique constraint
\* at commit finds the duplicate.
C21_InvoiceNumberUnique ==
    [](C21_NumbersDiffer /\ C21_DuplicateFails) /\ [][C21_NoRowOnFailure]_vars

\* A call was rejected as a duplicate in a store where a number with a leading
\* blank passes the lookup and is stopped by the unique constraint only.
C21_Witness ==
    /\ last.op = "create_invoice"
    /\ last.outcome = "Invoice number already exists."
    /\ \E a \in CreateInvoiceArgs :
          /\ CreateInvoiceValidation(a) = OK
          /\ CreateInvoiceLookups(a) = OK
          /\ ~InvoiceNumberUnique(NewInvoice(a))
          /\ CreateInvoiceOutcome(a) = "Invoice number already exists."

C22_DatesOrdered ==
    \A i \in DOMAIN invoices :
        /\ invoices[i].InvoiceDate <= invoices[i].DueDate
        /\ invoices[i].PaidDate # None <=> invoices[i].PaymentStatus = "Paid"
        /\ invoices[i].PaymentStatus = "Paid"
           => /\ invoices[i].InvoiceDate <= invoices[i].PaidDate
              /\ invoices[i].PaidDate <= today

\* The paid date a call sets is not after the day of the call.
C22_PaidByCallDay ==
    \A i \in DOMAIN invoices :
        (invoices'[i].PaidDate # invoices[i].PaidDate)
        => /\ today' = today
           /\ last'.op = "record_payment"
           /\ invoices[i].InvoiceDate <= invoices'[i].PaidDate
           /\ invoices'[i].PaidDate <= today

\* C22: from a store with no invoices, every invoice has InvoiceDate <= DueDate,
\* and PaidDate is set exactly when PaymentStatus is Paid, in which case
\* InvoiceDate <= PaidDate <= the day on which record_payment was called.
C22_InvoiceDatesMonotonic == []C22_DatesOrdered /\ [][C22_PaidByCallDay]_vars

\* An invoice of day 0 was paid on day 1 without a paid date, next to an invoice
\* that is still pending.
C22_Witness ==
    /\ last.op = "record_payment"
    /\ last.outcome = OK
    /\ invoices[last.id].InvoiceDate = 0
    /\ invoices[last.id].PaidDate = 1
    /\ \E i \in DOMAIN invoices :
          invoices[i].PaymentStatus = "Pending" /\ invoices[i].PaidDate = None

----------------------------------------------------------------------------
(* Two callers that schedule sessions of trainer 1 on day 0 at the same time. *)

RaceArgs ==
    { TrainerSchedCall(m, 1, 0, iv) :
      m \in {1, 2}, iv \in { <<600, 660>>, <<630, 690>>, <<660, 720>> } }
    \cup
    { TrainerSchedCall(1, 1, 0, <<660, 600>>) }

InitRace ==
    /\ today = 0
    /\ members = SeedMembers
    /\ sessionMembers = SeedMembers
    /\ sessions = << >>
    /\ healthMetrics = << >>
    /\ fitnessGoals = << >>
    /\ issues = << >>
    /\ invoices = << >>
    /\ last = NoCall
    /\ inflight = NoCalls

ScheduleScan == \E c \in Callers, a \in RaceArgs : schedule_scan(c, a)

ScheduleCommit == \E c \in Callers : schedule_commit(c)

NextRace == ScheduleScan \/ ScheduleCommit

SpecRace == InitRace /\ [][NextRace]_vars

\* Rows i and j are sessions of one trainer on one date with overlapping intervals.
TrainerOverlap(r1, r2) ==
    /\ r1.TrainerID = r2.TrainerID
    /\ r1.SessionDate = r2.SessionDate
    /\ r1.StartTime < r2.EndTime
    /\ r1.EndTime > r2.StartTime

\* A call that is past its scan commits its session, whatever was committed
\* since the scan.
C23_CommitUnchecked ==
    \A c \in Callers :
        schedule_commit(c)
        => /\ last'.outcome = OK
           /\ sessions' = Append(sessions, NewSession(inflight[c].a))

\* The session a call commits overlaps only with sessions that were committed
\* after its scan.
C23_OverlapOnlyUnseen ==
    \A c \in Callers :
        schedule_commit(c)
        => \A i \in DOMAIN sessions :
              TrainerOverlap(sessions[i], NewSession(inflight[c].a))
              => i > inflight[c].seen

\* C23: the scan and the write of schedule_pt_session are not one atomic step:
\* a caller whose scan passed commits whatever another caller committed since,
\* and the store rejects nothing, so two calls for one trainer, date and
\* overlapping intervals can both commit; overlaps only arise that way.
C23_ScanThenWriteRace == [][C23_CommitUnchecked /\ C23_OverlapOnlyUnseen]_vars

\* Two overlapping sessions of one trainer on one date are stored.
C23_Witness ==
    \E i \in DOMAIN sessions : \E j \in DOMAIN sessions :
        /\ i # j
        /\ TrainerOverlap(sessions[i], sessions[j])
        /\ sessions[i].MemberID # sessions[j].MemberID
        /\ last.op = "schedule_pt_session"
        /\ last.outcome = OK

----------------------------------------------------------------------------
(* Two callers that register members at the same time, from an empty table. *)

RegRaceArgs ==
    { RegCall(f, <<"d">>, e, None, NoneText, NoneText, NoneText, "Active") :
      f \in { <<"j">>, <<"k">> },
      e \in { EmailA, EmailAUpper, EmailB, <<"o", "@", "x", ".", "c">> } }
    \cup
    { RegCall(<<"j">>, <<"d">>, EmailB, None, NoneText, TextOfLen(21), NoneText, "Active"),
      RegCall(<<" ">>, <<"d">>, EmailA, None, NoneText, NoneText, NoneText, "Active") }

InitRegRace ==
    /\ today = 0
    /\ members = << >>
    /\ sessionMembers = << >>
    /\ sessions = << >>
    /\ healthMetrics = << >>
    /\ fitnessGoals = << >>
    /\ issues = << >>
    /\ invoices = << >>
    /\ last = NoCall
    /\ inflight = NoCalls

RegisterScan == \E c \in Callers, a \in RegRaceArgs : register_scan(c, a)

RegisterCommit == \E c \in Callers : register_commit(c)

NextRegRace == RegisterScan \/ RegisterCommit

SpecRegRace == InitRegRace /\ [][NextRegRace]_vars

C24_EmailsDiffer ==
    \A i \in DOMAIN members : \A j \in DOMAIN members :
        i # j => members[i].Email # members[j].Email

\* A commit of an email that another caller committed since the lookup fails
\* with the ValueError of a duplicate and leaves no row and no pending change;
\* a commit of an email that is still free, with values that fit, succeeds.
C24_OneCommitWins ==
    \A c \in Callers :
        register_commit(c)
        => IF \E i \in DOMAIN members :
                 members[i].Email = StoredEmail(inflight[c].a.email)
           THEN /\ last'.outcome = "Email already exists. Registration failed."
                /\ members' = members
                /\ sessionMembers' = members
                /\ inflight'[c] = Idle
           ELSE MemberColumnsFit(NewMember(inflight[c].a))
                => /\ last'.outcome = OK
                   /\ members' = Append(members, NewMember(inflight[c].a))

----------------------------------------------------------------------------
(* Every writing operation, on one call each that succeeds or whose commit the *)
(* store fails, next to a profile update that fails after its first            *)
(* assignment.                                                                 *)

CommitProfileArgs ==
    { ProfileCall(1, <<"n">>, NoneText, NoneText, NoneText, None, NoneText),
      ProfileCall(1, <<"m">>, <<" ">>, NoneText, NoneText, None, NoneText) }

CommitGoalArg == GoalCall(1, <<"w">>, 7000, None, None, "Active", NoneText)

CommitMetricArg == MetricCall(1, 0, None, 7000, None, None, NoneText)

CommitSchedArg == SchedCall(1, 1, None, 0, 600, 660, PERSONAL_TRAINING, None, None)

CommitIssueArg == IssueCall(1, 1, <<"t">>, NoneText, "High", None)

CommitUpdateArg == UpdateCall(1, "In Progress", None, None, NoneText)

CommitInvoiceArg == InvoiceCall(1, Number1, 0, 30, 12344, <<"s">>, None, NoneText)

CommitRegisterArg ==
    RegCall(<<"k">>, <<"d">>, EmailA, None, NoneText, NoneText, NoneText, "Active")

InitCommit ==
    /\ today = 0
    /\ members = SubSeq(SeedMembers, 1, 1)
    /\ sessionMembers = SubSeq(SeedMembers, 1, 1)
    /\ sessions = << >>
    /\ healthMetrics = << >>
    /\ fitnessGoals = << >>
    /\ issues = << >>
    /\ invoices = << >>
    /\ last = NoCall
    /\ inflight = NoCalls

CommitRegister == register_member(CommitRegisterArg)

CommitUpdateProfile == \E a \in CommitProfileArgs : update_profile(a)

CommitAddGoal == add_fitness_goal(CommitGoalArg)

CommitLogMetric == log_health_metric(CommitMetricArg)

CommitSchedule == schedule_pt_session(CommitSchedArg)

CommitAssignRoom == assign_room_booking(1, 1)

CommitLogIssue == log_maintenance_issue(CommitIssueArg)

CommitUpdateIssue == update_maintenance_status(CommitUpdateArg)

CommitCreateInvoice == create_invoice(CommitInvoiceArg)

CommitRecordPayment == record_payment(1, <<"c">>, None)

RegisterFails ==
    commit_fails("register_member", RegisterOutcome(CommitRegisterArg) = OK,
                 sessionMembers, "Registration failed: store error")

UpdateProfileFails ==
    \E a \in CommitProfileArgs :
        commit_fails("update_profile", UpdateProfileOutcome(a) = OK, ProfileAssigned(a),
                     "Profile update failed: store error")

AddGoalFails ==
    commit_fails("add_fitness_goal", GoalOutcome(CommitGoalArg) = OK, sessionMembers,
                 "Failed to add fitness goal: store error")

LogMetricFails ==
    commit_fails("log_health_metric", MetricOutcome(CommitMetricArg) = OK,
                 sessionMembers, "Failed to log health metric: store error")

ScheduleFails ==
    commit_fails("schedule_pt_session", ScheduleOutcome(CommitSchedArg) = OK,
                 sessionMembers, "Failed to schedule session: store error")

AssignRoomFails ==
    commit_fails("assign_room_booking", AssignRoomOutcome(1, 1) = OK, sessionMembers,
                 "Failed to assign room: store error")

LogIssueFails ==
    commit_fails("log_maintenance_issue", LogIssueOutcome(CommitIssueArg) = OK,
                 sessionMembers, "Failed to log maintenance issue: store error")

UpdateIssueFails ==
    commit_fails("update_maintenance_status", UpdateIssueOutcome(CommitUpdateArg) = OK,
                 sessionMembers, "Failed to update maintenance status: store error")

CreateInvoiceFails ==
    commit_fails("create_invoice", CreateInvoiceOutcome(CommitInvoiceArg) = OK,
                 sessionMembers, "Failed to create invoice: store error")

RecordPaymentFails ==
    commit_fails("record_payment", RecordPaymentOutcome(1, <<"c">>, None) = OK,
                 sessionMembers, "Failed to record payment: store error")

NextCommit ==
    \/ CommitRegister
    \/ CommitUpdateProfile
    \/ CommitAddGoal
    \/ CommitLogMetric
    \/ CommitSchedule
    \/ CommitAssignRoom
    \/ CommitLogIssue
    \/ CommitUpdateIssue
    \/ CommitCreateInvoice
    \/ CommitRecordPayment
    \/ RegisterFails
    \/ UpdateProfileFails
    \/ AddGoalFails
    \/ LogMetricFails
    \/ ScheduleFails
    \/ AssignRoomFails
    \/ LogIssueFails
    \/ UpdateIssueFails
    \/ CreateInvoiceFails
    \/ RecordPaymentFails

SpecCommit == InitCommit /\ [][NextCommit]_vars

\* The ValueError of each writing function's except block.
CommitErrors ==
    { "Registration failed: store error", "Profile update failed: store error",
      "Failed to add fitness goal: store error",
      "Failed to log health metric: store error",
      "Failed to schedule session: store error", "Failed to assign room: store error",
      "Failed to log maintenance issue: store error",
      "Failed to update maintenance status: store error",
      "Failed to create invoice: store error", "Failed to record payment: store error" }

\* After a call whose commit failed every table is as it was before the call and
\* the session holds no change that a later commit would write.
C25_RolledBack ==
    last'.outcome \in CommitErrors
    => /\ UNCHANGED <<members, sessions, healthMetrics, fitnessGoals, issues, invoices>>
       /\ sessionMembers' = members

----------------------------------------------------------------------------
(* Sessions on dates around the booking window, and room assignments, as the   *)
(* days pass.                                                                  *)

WindowDates == { 0 - 1, 0, 1, 365, 366, 367 }

WindowArgs ==
    { SchedCall(m, 1, None, d, 600, 660, PERSONAL_TRAINING, None, None) :
      m \in {1, 2}, d \in WindowDates }

InitWindow ==
    /\ today = 0
    /\ members = SeedMembers
    /\ sessionMembers = SeedMembers
    /\ sessions = << >>
    /\ healthMetrics = << >>
    /\ fitnessGoals = << >>
    /\ issues = << >>
    /\ invoices = << >>
    /\ last = NoCall
    /\ inflight = NoCalls

WindowSchedule == \E a \in WindowArgs : schedule_pt_session(a)

WindowAssignRoom ==
    \E session_id \in 1 .. MaxSessions, room_id \in {1, 2} :
        assign_room_booking(session_id, room_id)

NextWindow == WindowSchedule \/ WindowAssignRoom \/ NextDay

SpecWindow == InitWindow /\ [][NextWindow]_vars

\* A call with a date before today or more than 365 days after today fails, and
\* so does a room assignment to a session before today.
C26_OutsideFails ==
    /\ \A a \in WindowArgs :
          (a.session_date < today \/ a.session_date > today + 365)
          => ScheduleOutcome(a) # OK
    /\ \A i \in DOMAIN sessions : \A room_id \in {1, 2} :
          sessions[i].SessionDate < today => AssignRoomOutcome(i, room_id) # OK

\* A created session is dated within the window of the day of the call, a failed
\* schedule_pt_session creates nothing, and the room of a session changes only
\* when the session is not before the day of the call.
C26_WithinWindow ==
    /\ \A i \in DOMAIN sessions' :
          i \notin DOMAIN sessions
          => /\ today' = today
             /\ sessions'[i].SessionDate >= today
             /\ sessions'[i].SessionDate <= today + 365
    /\ (last'.op = "schedule_pt_session" /\ last'.outcome # OK) => sessions' = sessions
    /\ \A i \in DOMAIN sessions :
          sessions'[i].RoomID # sessions[i].RoomID
          => (today' = today /\ sessions[i].SessionDate >= today)

\* C26: every session schedule_pt_session creates is dated, on the day of the
\* call, not before today and at most 365 days after today; a call outside
\* this window fails and creates nothing; assign_room_booking refuses to change
\* the room of a session dated before the day of the call.
C26_BookingWindow == []C26_OutsideFails /\ [][C26_WithinWindow]_vars

\* A room assignment to a session of yesterday was refused, in a store that
\* holds a session dated 365 days after today.
C26_Witness ==
    /\ last.op = "assign_room_booking"
    /\ last.outcome = "Cannot assign room to a past session."
    /\ \E i \in DOMAIN sessions : sessions[i].SessionDate < today
    /\ \E i \in DOMAIN sessions : sessions[i].SessionDate = today + 365

----------------------------------------------------------------------------
(* Member lookup over a table of 102 members, 101 of them with first name j,   *)
(* while goals and metrics of the first two members are added.                 *)

\* The email of member i: seven letters that spell i in binary, at x.c.
LookupEmail(i) ==
    [k \in 1 .. 7 |-> IF (i \div (2 ^ (k - 1))) % 2 = 1 THEN "a" ELSE "b"]
    \o << "@", "x", ".", "c" >>

LookupMembers ==
    [i \in 1 .. LookupLimit + 2 |->
        SeedMember(IF i = 2 THEN <<"k">> ELSE <<"j">>, LookupEmail(i))]

LookupTerms == { <<"j">>, <<" ", "k", " ", "d", " ">>, <<"z">>, <<" ">> }

LookupGoalArgs ==
    { GoalCall(m, <<"w">>, 7000, None, None, "Active", NoneText) : m \in {1, 2} }

LookupMetricArgs ==
    { MetricCall(1, d, None, 7000, None, None, NoneText) : d \in { 0 - 1, 0 } }

InitLookup ==
    /\ today = 0
    /\ members = LookupMembers
    /\ sessionMembers = LookupMembers
    /\ sessions = << >>
    /\ healthMetrics = << >>
    /\ fitnessGoals = << >>
    /\ issues = << >>
    /\ invoices = << >>
    /\ last = NoCall
    /\ inflight = NoCalls

LookupAddGoal == \E a \in LookupGoalArgs : add_fitness_goal(a)

LookupLogMetric == \E a \in LookupMetricArgs : log_health_metric(a)

LookupCall == \E s \in LookupTerms : lookup_member(s)

NextLookup == LookupAddGoal \/ LookupLogMetric \/ LookupCall \/ NextDay

SpecLookup == InitLookup /\ [][NextLookup]_vars

\* g is what latest_goal has to be for member m.
C27_GoalIsLatest(m, g) ==
    IF \A i \in DOMAIN fitnessGoals : fitnessGoals[i].MemberID # m
    THEN g = None
    ELSE /\ g \in DOMAIN fitnessGoals
         /\ fitnessGoals[g].MemberID = m
         /\ \A i \in DOMAIN fitnessGoals :
               fitnessGoals[i].MemberID = m
               => fitnessGoals[i].SetDate <= fitnessGoals[g].SetDate

\* x is what latest_metric has to be for member m.
C27_MetricIsLatest(m, x) ==
    IF \A i \in DOMAIN healthMetrics : healthMetrics[i].MemberID # m
    THEN x = None
    ELSE /\ x \in DOMAIN healthMetrics
         /\ healthMetrics[x].MemberID = m
         /\ \A i \in DOMAIN healthMetrics :
               healthMetrics[i].MemberID = m
               => healthMetrics[i].RecordedDate <= healthMetrics[x].RecordedDate

\* C27: lookup_member returns at most 100 members, and with each of them a
\* latest_goal that is a goal of that member with the greatest SetDate (None
\* exactly when the member has no goal) and a latest_metric that is a metric of
\* that member with the greatest RecordedDate (None exactly when it has none).
C27_LookupLatest ==
    \A s \in LookupTerms :
        LookupValidation(s) = OK
        => /\ \A picked \in LookupPicks(s) : Cardinality(picked) <= 100
           /\ \A m \in LookupRows(s) :
                 /\ \A g \in LatestGoals(m) : C27_GoalIsLatest(m, g)
                 /\ \A x \in LatestMetrics(m) : C27_MetricIsLatest(m, x)

\* A lookup succeeded when more than 100 members match j, member 1 has goals set
\* on two days and metrics recorded on two days, and member 3 has neither.
C27_Witness ==
    /\ last.op = "lookup_member"
    /\ last.outcome = OK
    /\ Cardinality(LookupRows(<<"j">>)) > LookupLimit
    /\ \E g \in DOMAIN fitnessGoals : \E h \in DOMAIN fitnessGoals :
          /\ fitnessGoals[g].MemberID = 1 /\ fitnessGoals[h].MemberID = 1
          /\ fitnessGoals[g].SetDate < fitnessGoals[h].SetDate
    /\ \E x \in DOMAIN healthMetrics : \E y \in DOMAIN healthMetrics :
          /\ healthMetrics[x].MemberID = 1 /\ healthMetrics[y].MemberID = 1
          /\ healthMetrics[x].RecordedDate < healthMetrics[y].RecordedDate
    /\ LatestGoals(3) = {None}

----------------------------------------------------------------------------
(* Sessions of two members with two trainers, with and without a room, on day  *)
(* 0, and room assignments, one call after the other.                          *)

MemberSlotArgs ==
    { SchedCall(m, t, r, 0, iv[1], iv[2], PERSONAL_TRAINING, None, None) :
      m \in {1, 2}, t \in {1, 2}, r \in {None, 1, 2}, iv \in SchedIntervals }

InitMemberSlots ==
    /\ today = 0
    /\ members = SeedMembers
    /\ sessionMembers = SeedMembers
    /\ sessions = << >>
    /\ healthMetrics = << >>
    /\ fitnessGoals = << >>
    /\ issues = << >>
    /\ invoices = << >>
    /\ last = NoCall
    /\ inflight = NoCalls

MemberSlotSchedule == \E a \in MemberSlotArgs : schedule_pt_session(a)

MemberSlotAssignRoom ==
    \E session_id \in 1 .. MaxSessions, room_id \in {1, 2} :
        assign_room_booking(session_id, room_id)

NextMemberSlots == MemberSlotSchedule \/ MemberSlotAssignRoom

SpecMemberSlots == InitMemberSlots /\ [][NextMemberSlots]_vars

\* Rows r1 and r2 are sessions of one member on one date with overlapping
\* intervals.
MemberOverlap(r1, r2) ==
    /\ r1.MemberID = r2.MemberID
    /\ r1.SessionDate = r2.SessionDate
    /\ r1.StartTime < r2.EndTime
    /\ r1.EndTime > r2.StartTime

C28_NoMemberOverlap ==
    \A i \in DOMAIN sessions : \A j \in DOMAIN sessions :
        i # j => ~MemberOverlap(sessions[i], sessions[j])

\* A call that collides with a session of the member, and with no session of
\* the trainer or in the room, fails on the member.
C28_MemberOnlyFails ==
    \A a \in MemberSlotArgs :
        ( /\ \E i \in DOMAIN sessions : MemberOverlap(sessions[i], NewSession(a))
          /\ TrainerConflictRows(a.trainer_id, a.session_date, a.start_time,
                                 a.end_time) = {}
          /\ a.room_id = None
             \/ RoomConflictRows(a.room_id, a.session_date, a.start_time,
                                 a.end_time) = {} )
        => ScheduleOutcome(a) = "Member already has a session scheduled at this time."

C28_NothingCreated ==
    (last'.op = "schedule_pt_session" /\ last'.outcome # OK) => sessions' = sessions

\* C28: from a store with no sessions, after any sequence of schedule_pt_session
\* and assign_room_booking calls made one after the other, no two sessions of
\* one member on one date overlap; a call that collides only on the member
\* fails and creates no session.
C28_MemberNeverDoubleBooked ==
    [](C28_NoMemberOverlap /\ C28_MemberOnlyFails) /\ [][C28_NothingCreated]_vars

\* A call was refused on the member while the member's session is with another
\* trainer and a trainer is free in the overlapping interval.
C28_Witness ==
    /\ last.op = "schedule_pt_session"
    /\ last.outcome = "Member already has a session scheduled at this time."
    /\ \E a \in MemberSlotArgs :
          /\ \E i \in DOMAIN sessions :
                /\ MemberOverlap(sessions[i], NewSession(a))
                /\ sessions[i].TrainerID # a.trainer_id
          /\ TrainerConflictRows(a.trainer_id, a.session_date, a.start_time,
                                 a.end_time) = {}
          /\ a.room_id = None
          /\ ScheduleOutcome(a) = "Member already has a session scheduled at this time."

----------------------------------------------------------------------------
(* The resolution date and the status requested with it, under SpecMaint. *)

C29_OneCallRejected ==
    \A a \in UpdateArgs :
        ( /\ UpdateIssueValidation(a) = OK
          /\ IssueExists(a.issue_id)
          /\ issues[a.issue_id].Status \in {"Open", "In Progress"}
          /\ a.status \in {"Resolved", "Closed"}
          /\ a.resolution_date # None )
        => UpdateIssueOutcome(a) # OK

\* A rejected call changes no issue, and a resolution date is only set on an
\* issue that an earlier call had resolved or closed.
C29_StatusFirst ==
    /\ (last'.op = "update_maintenance_status" /\ last'.outcome # OK) => issues' = issues
    /\ \A i \in DOMAIN issues :
          issues'[i].ResolutionDate # issues[i].ResolutionDate
          => issues[i].Status \in {"Resolved", "Closed"}

\* C29: update_maintenance_status checks the resolution date against the status
\* the issue has before the call: one call on an Open or In Progress issue with
\* status Resolved or Closed and a resolution date is rejected and leaves Status
\* and ResolutionDate unchanged, so a resolution date needs a second call.
C29_ResolutionNeedsTwoCalls == []C29_OneCallRejected /\ [][C29_StatusFirst]_vars

\* A call was rejected for the resolution date while the issue is In Progress
\* and a call that requests Resolved with a resolution date is rejected for it.
C29_Witness ==
    /\ last.op = "update_maintenance_status"
    /\ last.outcome = "Cannot set resolution date unless status is 'Resolved' or 'Closed'."
    /\ \E a \in UpdateArgs :
          /\ IssueExists(a.issue_id)
          /\ issues[a.issue_id].Status = "In Progress"
          /\ issues[a.issue_id].ResolutionDate = None
          /\ a.status = "Resolved"
          /\ a.resolution_date # None
          /\ UpdateIssueOutcome(a) = last.outcome

----------------------------------------------------------------------------
(* Invoices for sessions: sessions of two members are scheduled and invoiced   *)
(* to either member.                                                           *)

BillingSchedArgs ==
    { SchedCall(m, t, None, 0, 600, 660, PERSONAL_TRAINING, None, None) :
      m \in {1, 2}, t \in {1, 2} }

BillingInvoiceArgs ==
    { InvoiceCall(p, n, 0, 30, 12344, <<"s">>, s, NoneText) :
      p \in {1, 2}, n \in { Number1, Number2, << "n", "3" >> },
      s \in { None } \cup 1 .. MaxSessions + 1 }

InitBilling ==
    /\ today = 0
    /\ members = SeedMembers
    /\ sessionMembers = SeedMembers
    /\ sessions = << >>
    /\ healthMetrics = << >>
    /\ fitnessGoals = << >>
    /\ issues = << >>
    /\ invoices = << >>
    /\ last = NoCall
    /\ inflight = NoCalls

BillingSchedule == \E a \in BillingSchedArgs : schedule_pt_session(a)

BillingCreateInvoice == \E a \in BillingInvoiceArgs : create_invoice(a)

NextBilling == BillingSchedule \/ BillingCreateInvoice

SpecBilling == InitBilling /\ [][NextBilling]_vars

C30_SessionOfPayer ==
    \A i \in DOMAIN invoices :
        invoices[i].SessionID # None
        => /\ SessionExists(invoices[i].SessionID)
           /\ sessions[invoices[i].SessionID].MemberID = invoices[i].PayerID

C30_OtherMemberFails ==
    \A a \in BillingInvoiceArgs :
        ( /\ a.session_id # None
          /\ SessionExists(a.session_id)
          /\ sessions[a.session_id].MemberID # a.payer_id )
        => CreateInvoiceOutcome(a) # OK

C30_NoInvoiceOnFailure ==
    (last'.op = "create_invoice" /\ last'.outcome # OK) => invoices' = invoices

\* C30: every invoice created with a SessionID refers to a session whose MemberID
\* is the invoice's PayerID; a create_invoice call that names a session of
\* another member fails and inserts no invoice.
C30_InvoiceSessionOfPayer ==
    [](C30_SessionOfPayer /\ C30_OtherMemberFails) /\ [][C30_NoInvoiceOnFailure]_vars

\* A call naming a session of the other member was refused, in a store that
\* holds an invoice for a session of its payer.
C30_Witness ==
    /\ last.op = "create_invoice"
    /\ last.outcome = "Session does not belong to member."
    /\ \E i \in DOMAIN invoices : invoices[i].SessionID # None

====
